---- MODULE Spec2Model ----
(***************************************************************************)
(* go-render-redact: the recursive value-traversal engine (render), its    *)
(* cycle-detection chain (traverseState), the map-key canonicalizer        *)
(* (cmpForType / tryAndSortMapKeys), the type formatter (writeType), the   *)
(* redaction policy (redactField / isRemoved), the masking writer          *)
(* (MaskWriter.Write) and the Marshaller entry points (Render / Redact).   *)
(*                                                                         *)
(* A render call is modelled as a machine over an agenda of pending work   *)
(* (the continuation of the recursion): one step per recursive call of     *)
(* traverseState.render and one step per read of the Marshaller's shared   *)
(* options, so that concurrent calls interleave where the Go code does.    *)
(* Text is a TLA+ string; byte contents that the masking writer cuts are   *)
(* sequences of one-character strings.                                     *)
(***************************************************************************)
EXTENDS Integers, Sequences, FiniteSets, TLC

VARIABLES
    opts,   \* the Marshaller's *options, shared by every call on it
    calls,  \* per goroutine: the Render/Redact call it is running
    prev,   \* an earlier call that ran alone to its end, no formatter registered
    mw,     \* a MaskWriter w, the bytes p given to its Write, and what was written
    made,   \* the last NewMarshaller call: the options given, what it returned
    heap,   \* the values in memory, by the name the model gives each
    types   \* the run-time type descriptors, by name; never written

vars == <<opts, calls, prev, mw, made, heap, types>>

-----------------------------------------------------------------------------
(* Bounds of the model *)

\* longest byte content handed to MaskWriter.Write on its own
MaxLen == 3
\* recursion depth at which the Go runtime's stack limit is taken to be hit
MaxDepth == 9

-----------------------------------------------------------------------------
(* Text *)

RECURSIVE Cat(_)
\* strings.Builder contents of a byte sequence
Cat(bs) == IF bs = <<>> THEN "" ELSE Head(bs) \o Cat(Tail(bs))

RECURSIVE Repeat(_, _)
\* bytes.Repeat(b, n)
Repeat(b, n) == IF n <= 0 THEN <<>> ELSE b \o Repeat(b, n - 1)

DigitChar == <<"0", "1", "2", "3", "4", "5", "6", "7", "8", "9">>

RECURSIVE FormatNat(_)
FormatNat(n) ==
    IF n < 10 THEN <<DigitChar[n + 1]>>
    ELSE FormatNat(n \div 10) \o <<DigitChar[(n % 10) + 1]>>

\* fmt "%d" of an integer
FormatInt(n) == IF n < 0 THEN <<"-">> \o FormatNat(0 - n) ELSE FormatNat(n)

\* fmt "%v" of a bool
FormatBool(b) == IF b THEN <<"t", "r", "u", "e">> ELSE <<"f", "a", "l", "s", "e">>

HexChar == <<"0", "1", "2", "3", "4", "5", "6", "7", "8", "9", "a", "b", "c", "d", "e", "f">>

RECURSIVE HexDigits(_, _)
HexDigits(n, width) ==
    IF width = 0 THEN <<>>
    ELSE HexDigits(n \div 16, width - 1) \o <<HexChar[(n % 16) + 1]>>

\* fmt "0x%016x" of a uintptr
FormatPointer(p) == <<"0", "x">> \o HexDigits(p, 16)

RECURSIVE Escape(_)
Escape(bs) ==
    IF bs = <<>> THEN <<>>
    ELSE (IF Head(bs) \in {"\"", "\\"} THEN <<"\\", Head(bs)>> ELSE <<Head(bs)>>)
         \o Escape(Tail(bs))

\* fmt "%q" of a string
Quote(bs) == <<"\"">> \o Escape(bs) \o <<"\"">>

-----------------------------------------------------------------------------
(* Masking writer *)

\* DefaultMaskingChar '#' as its UTF-8 bytes
defaultMaskingCharToBytes == <<"#">>

DefaultMaskingLength == 4

\* MaskWriter.Write without the length test of the whole-content case
WriteNoWholeCase(w, p) ==
    LET L == w.options.maskingLength
        c == w.options.maskingChar
    IN  IF ~w.options.active \/ ~w.masked THEN p
        ELSE IF L < 0 THEN Repeat(c, Len(p))
        ELSE IF w.options.maskingReverse
             THEN SubSeq(p, 1, Len(p) - L) \o Repeat(c, L)
        ELSE Repeat(c, L) \o SubSeq(p, L + 1, Len(p))

\* MaskWriter.Write with the two directions exchanged
WriteSwapped(w, p) ==
    LET L == w.options.maskingLength
        c == w.options.maskingChar
    IN  IF ~w.options.active \/ ~w.masked THEN p
        ELSE IF L < 0 \/ L >= Len(p) THEN Repeat(c, Len(p))
        ELSE IF ~w.options.maskingReverse
             THEN SubSeq(p, 1, Len(p) - L) \o Repeat(c, L)
        ELSE Repeat(c, L) \o SubSeq(p, L + 1, Len(p))

\* MaskWriter.Write: the bytes appended to the builder for the bytes p
Write(w, p) ==
    LET L == w.options.maskingLength
        c == w.options.maskingChar
    IN  IF ~w.options.active \/ ~w.masked THEN p
        ELSE IF L < 0 \/ L >= Len(p) THEN Repeat(c, Len(p))
        ELSE IF w.options.maskingReverse
             THEN SubSeq(p, 1, Len(p) - L) \o Repeat(c, L)
        ELSE Repeat(c, L) \o SubSeq(p, L + 1, Len(p))

\* NewMaskWriter(str, masked, options): the builder is the call's output
NewMaskWriter(masked, options) == [masked |-> masked, options |-> options]

-----------------------------------------------------------------------------
(* Types: what reflect.Type tells the engine about a type *)

\* the field names of the model that start with a lower-case letter
LowerCaseNames == {"m", "a", "b", "in", "pin", "sl", "arr", "p", "l", "e", "i", "n", "c"}

\* a reflect.StructField: Name, Type, the one key:"value" pair of its Tag
\* (tagKey = "" when the field has no tag), and whether it is exported
Field(name, type, tagKey, tagVal) ==
    [name |-> name, type |-> type, tagKey |-> tagKey, tagVal |-> tagVal,
     exported |-> name \notin LowerCaseNames]

F(name, type) == Field(name, type, "", "")

FT(name, type, tagVal) == Field(name, type, "redact", tagVal)

\* a reflect.Type: Kind(), Name(), String(), Elem(), Key(), Len(), Field(i)
Ty(kind, name, str, elem, key, len, fields) ==
    [kind |-> kind, name |-> name, str |-> str, elem |-> elem, key |-> key,
     len |-> len, fields |-> fields]

Scalar(kind) == Ty(kind, kind, kind, "", "", 0, <<>>)

NamedStruct(name, fields) == Ty("struct", name, "render." \o name, "", "", 0, fields)

\* the struct types of the REMOVE separator cases: fields A, B, C, each kept
\* or tagged REMOVE
RemoveStruct(name, a, b, c) ==
    NamedStruct(name,
        << (IF a THEN FT("A", "int", "REMOVE") ELSE F("A", "int")),
           (IF b THEN FT("B", "int", "REMOVE") ELSE F("B", "int")),
           (IF c THEN FT("C", "int", "REMOVE") ELSE F("C", "int")) >>)

Types ==
    [ int |-> Scalar("int"),
      string |-> Scalar("string"),
      bool |-> Scalar("bool"),
      uint |-> Scalar("uint"),
      float64 |-> Ty("float", "float64", "float64", "", "", 0, <<>>),
      complex128 |-> Ty("complex", "complex128", "complex128", "", "", 0, <<>>),
      Pointer |-> Ty("unsafeptr", "Pointer", "unsafe.Pointer", "", "", 0, <<>>),
      iface |-> Ty("interface", "", "interface {}", "", "", 0, <<>>),
      testStruct |-> NamedStruct("testStruct", <<F("Name", "string"), F("I", "iface")>>),
      ptrTestStruct |-> Ty("ptr", "", "*render.testStruct", "testStruct", "", 0, <<>>),
      ptrIface |-> Ty("ptr", "", "*interface {}", "iface", "", 0, <<>>),
      P |-> Ty("ptr", "P", "render.P", "P", "", 0, <<>>),
      arr2Iface |-> Ty("array", "", "[2]interface {}", "iface", "", 2, <<>>),
      ptrArr2Iface |-> Ty("ptr", "", "*[2]interface {}", "arr2Iface", "", 0, <<>>),
      sliceIface |-> Ty("slice", "", "[]interface {}", "iface", "", 0, <<>>),
      mapStringIface |-> Ty("map", "", "map[string]interface {}", "iface", "string", 0, <<>>),
      mapIntString |-> Ty("map", "", "map[int]string", "string", "int", 0, <<>>),
      arr1Int |-> Ty("array", "", "[1]int", "int", "", 1, <<>>),
      mapArrString |-> Ty("map", "", "map[[1]int]string", "string", "arr1Int", 0, <<>>),
      K |-> NamedStruct("K", <<FT("Secret", "int", "REMOVE"), F("Id", "string")>>),
      mapKInt |-> Ty("map", "", "map[render.K]int", "int", "K", 0, <<>>),
      Rkkk |-> RemoveStruct("Rkkk", FALSE, FALSE, FALSE),
      Rrkk |-> RemoveStruct("Rrkk", TRUE, FALSE, FALSE),
      Rkrk |-> RemoveStruct("Rkrk", FALSE, TRUE, FALSE),
      Rkkr |-> RemoveStruct("Rkkr", FALSE, FALSE, TRUE),
      Rrrk |-> RemoveStruct("Rrrk", TRUE, TRUE, FALSE),
      Rrkr |-> RemoveStruct("Rrkr", TRUE, FALSE, TRUE),
      Rkrr |-> RemoveStruct("Rkrr", FALSE, TRUE, TRUE),
      Rrrr |-> RemoveStruct("Rrrr", TRUE, TRUE, TRUE),
      M |-> NamedStruct("M", <<FT("Name", "string", "MASK"), FT("I", "iface", "MASK"),
                               FT("m", "string", "MASK"), F("Test", "ptrM")>>),
      ptrM |-> Ty("ptr", "", "*render.M", "M", "", 0, <<>>),
      Inner |-> NamedStruct("Inner", <<F("X", "int"), F("Y", "string")>>),
      ptrInner |-> Ty("ptr", "", "*render.Inner", "Inner", "", 0, <<>>),
      sliceInt |-> Ty("slice", "", "[]int", "int", "", 0, <<>>),
      arr2String |-> Ty("array", "", "[2]string", "string", "", 2, <<>>),
      mapStringInt |-> Ty("map", "", "map[string]int", "int", "string", 0, <<>>),
      chanInt |-> Ty("chan", "", "chan int", "int", "", 0, <<>>),
      MX |-> NamedStruct("MX", <<FT("P", "ptrInner", "MASK"), FT("L", "sliceInt", "MASK"),
                                 FT("A", "arr2String", "MASK"), FT("Mp", "mapStringInt", "MASK"),
                                 FT("C", "chanInt", "MASK"), FT("B", "bool", "MASK"),
                                 F("Plain", "int"), F("After", "string")>>),
      RP |-> NamedStruct("RP", <<FT("Name", "string", "REPLACE"), FT("I", "iface", "REPLACE"),
                                 F("N", "int")>>),
      anonS |-> Ty("struct", "", "struct { a int \"redact:\\\"MASK\\\"\"; b string }", "", "", 0,
                   <<FT("a", "int", "MASK"), F("b", "string")>>),
      Sec |-> NamedStruct("Sec", <<F("Pub", "int"), FT("Priv", "ptrInner", "REMOVE"),
                                   FT("Rep", "string", "REPLACE")>>),
      RR |-> NamedStruct("RR", <<FT("Self", "ptrRR", "REPLACE"), FT("Nil", "ptrInner", "REPLACE"),
                                 F("N", "int")>>),
      ptrRR |-> Ty("ptr", "", "*render.RR", "RR", "", 0, <<>>),
      anonR |-> Ty("struct", "", "struct { a int \"redact:\\\"REPLACE\\\"\"; b string }", "", "", 0,
                   <<FT("a", "int", "REPLACE"), F("b", "string")>>),
      anonRem |-> Ty("struct", "", "struct { a int \"redact:\\\"REMOVE\\\"\" }", "", "", 0,
                     <<FT("a", "int", "REMOVE")>>),
      sliceAnonRem |-> Ty("slice", "", "[]struct { a int \"redact:\\\"REMOVE\\\"\" }",
                          "anonRem", "", 0, <<>>),
      \* the types formatters are registered for, and a struct that holds
      \* them in exported and unexported, tagged and untagged fields
      T |-> NamedStruct("T", <<F("X", "int"), FT("Y", "string", "REMOVE")>>),
      ptrT |-> Ty("ptr", "", "*render.T", "T", "", 0, <<>>),
      FM |-> NamedStruct("FM", <<FT("V", "T", "MASK"), F("P", "ptrT"),
                                 FT("L", "sliceInt", "MASK"), F("in", "T"),
                                 F("sl", "sliceInt"), F("pin", "ptrT"),
                                 FT("S", "string", "MASK")>>),
      \* fields tagged under three annotation keys
      \* map types by key type; KA is a struct key with an array field
      mapBoolInt |-> Ty("map", "", "map[bool]int", "int", "bool", 0, <<>>),
      mapUintInt |-> Ty("map", "", "map[uint]int", "int", "uint", 0, <<>>),
      mapFloatInt |-> Ty("map", "", "map[float64]int", "int", "float64", 0, <<>>),
      mapComplexInt |-> Ty("map", "", "map[complex128]int", "int", "complex128", 0, <<>>),
      mapPointerInt |-> Ty("map", "", "map[unsafe.Pointer]int", "int", "Pointer", 0, <<>>),
      KA |-> NamedStruct("KA", <<F("Id", "int"), F("Arr", "arr1Int")>>),
      mapKAInt |-> Ty("map", "", "map[render.KA]int", "int", "KA", 0, <<>>),
      \* a struct that holds an Inner and two pointers to an Inner
      Out |-> NamedStruct("Out", <<F("In", "Inner"), F("P1", "ptrInner"), F("P2", "ptrInner")>>),
      ptrOut |-> Ty("ptr", "", "*render.Out", "Out", "", 0, <<>>),
      sliceMap |-> Ty("slice", "", "[]map[string]interface {}", "mapStringIface", "", 0, <<>>),
      \* named scalar types, pointers to scalars, and unnamed composite types
      \* of TestRenderList and TestRenderImplicitType
      myIntType |-> Ty("int", "myIntType", "render.myIntType", "", "", 0, <<>>),
      myStringType |-> Ty("string", "myStringType", "render.myStringType", "", "", 0, <<>>),
      ptrMyIntType |-> Ty("ptr", "", "*render.myIntType", "myIntType", "", 0, <<>>),
      ptrString |-> Ty("ptr", "", "*string", "string", "", 0, <<>>),
      ptrPtrString |-> Ty("ptr", "", "**string", "ptrString", "", 0, <<>>),
      ptrInt |-> Ty("ptr", "", "*int", "int", "", 0, <<>>),
      mapMyIntString |-> Ty("map", "", "map[render.myIntType]string", "string", "myIntType",
                            0, <<>>),
      slicePtrInt |-> Ty("slice", "", "[]*int", "ptrInt", "", 0, <<>>),
      slicePtrInner |-> Ty("slice", "", "[]*render.Inner", "ptrInner", "", 0, <<>>),
      anonAB |-> Ty("struct", "", "struct { a int; b int }", "", "", 0,
                    <<F("a", "int"), F("b", "int")>>),
      sliceAnonAB |-> Ty("slice", "", "[]struct { a int; b int }", "anonAB", "", 0, <<>>),
      mapStringAnonAB |-> Ty("map", "", "map[string]struct { a int; b int }", "anonAB",
                             "string", 0, <<>>),
      namedStruct |-> NamedStruct("namedStruct", <<F("a", "int"), F("b", "int")>>),
      myStringSlice |-> Ty("slice", "myStringSlice", "render.myStringSlice", "string", "", 0, <<>>),
      anonQ |-> Ty("struct", "",
                   "struct { p *int; l []int; e []int; i interface {}; n render.myIntType; c chan int }",
                   "", "", 0,
                   <<F("p", "ptrInt"), F("l", "sliceInt"), F("e", "sliceInt"),
                     F("i", "iface"), F("n", "myIntType"), F("c", "chanInt")>>),
      NS |-> NamedStruct("NS", <<F("P", "ptrInt"), F("L", "sliceInt"), F("E", "sliceInt")>>),
      \* a struct whose first field is an array, and a struct held in a slice,
      \* each with a pointer that may point back into it
      arr2Int |-> Ty("array", "", "[2]int", "int", "", 2, <<>>),
      ptrArr2Int |-> Ty("ptr", "", "*[2]int", "arr2Int", "", 0, <<>>),
      SA |-> NamedStruct("SA", <<F("A", "arr2Int"), F("P", "ptrArr2Int")>>),
      ptrSA |-> Ty("ptr", "", "*render.SA", "SA", "", 0, <<>>),
      E |-> NamedStruct("E", <<F("N", "int"), F("P", "ptrE")>>),
      ptrE |-> Ty("ptr", "", "*render.E", "E", "", 0, <<>>),
      sliceE |-> Ty("slice", "", "[]render.E", "E", "", 0, <<>>),
      \* type MC struct { Self *MC `redact:"MASK"`; N int }
      MC |-> NamedStruct("MC", <<FT("Self", "ptrMC", "MASK"), F("N", "int")>>),
      ptrMC |-> Ty("ptr", "", "*render.MC", "MC", "", 0, <<>>),
      \* type U struct { A int; B int `redact:"OTHER"`; C string `redact:""` }
      U |-> NamedStruct("U", <<F("A", "int"), FT("B", "int", "OTHER"),
                               FT("C", "string", "")>>),
      TG |-> NamedStruct("TG", <<Field("A", "string", "a-", "REMOVE"),
                                 Field("B", "string", "redact", "REPLACE"),
                                 Field("C", "int", "Z9", "REMOVE"),
                                 Field("M", "int", "a-", "MASK")>>) ]

TypeOf(t) == types[t]

\* a builtinTypeMap that holds no kind
builtinTypeMapEmpty(kind) == ""

\* builtinTypeMap: the built-in name of a scalar kind ("" for the other kinds)
builtinTypeMap(kind) ==
    CASE kind \in {"bool", "int", "uint", "string"} -> kind
      [] kind = "float" -> "float64"
      [] kind = "complex" -> "complex128"
      [] OTHER -> ""

\* builtinTypeSet: the names builtinTypeMap holds
builtinTypeSet == {"bool", "int", "uint", "string", "float64", "complex128"}

\* a writeType that writes Type.String() and nothing else
writeTypeString(ptrs, t) == TypeOf(t).str

RECURSIVE writeType(_, _)
\* writeType(str, ptrs, t): the text it appends to str
writeType(ptrs, t) ==
    LET ty == TypeOf(t)
        parens == ptrs > 0 \/ ty.kind \in {"chan", "func", "unsafeptr"}
        body ==
            CASE ty.kind = "ptr" ->
                    (IF ptrs = 0 THEN "*" ELSE "") \o writeType(0, ty.elem)
              [] ty.kind = "interface" ->
                    IF ty.name # "" THEN ty.str ELSE "interface{}"
              [] ty.kind = "array" ->
                    "[" \o Cat(FormatInt(ty.len)) \o "]" \o writeType(0, ty.elem)
              [] ty.kind = "slice" ->
                    IF ty.name = "" THEN "[]" \o writeType(0, ty.elem) ELSE ty.str
              [] ty.kind = "map" ->
                    IF ty.name = ""
                    THEN "map[" \o writeType(0, ty.key) \o "]" \o writeType(0, ty.elem)
                    ELSE ty.str
              [] OTHER -> ty.str
    IN  (IF parens THEN "(" \o Cat(Repeat(<<"*">>, ptrs)) ELSE "")
        \o body
        \o (IF parens THEN ")" ELSE "")

\* an isAnon that does not look at the name of the type
isAnonByKind(t) == TypeOf(t).kind # "interface"

\* isAnon(t) of traverseState.render
isAnon(t) ==
    LET ty == TypeOf(t)
    IN  IF ty.name # "" /\ ty.name \notin builtinTypeSet THEN FALSE
        ELSE ty.kind # "interface"

-----------------------------------------------------------------------------
(* Values: what reflect.Value tells the engine about a value *)

\* the zero reflect.Value (Kind() == reflect.Invalid), reflect.ValueOf(nil)
Invalid == "invalid"

\* n is the number held (the real part of a complex), im the imaginary part,
\* nan whether a float is NaN
Val(t, n, b, s, elems, keys, vals, target, addr, isNil) ==
    [t |-> t, n |-> n, im |-> 0, nan |-> FALSE, b |-> b, s |-> s, elems |-> elems,
     keys |-> keys, vals |-> vals, target |-> target, addr |-> addr, isNil |-> isNil]

VInt(n) == Val("int", n, FALSE, <<>>, <<>>, <<>>, <<>>, Invalid, 0, FALSE)
VStr(s) == Val("string", 0, FALSE, s, <<>>, <<>>, <<>>, Invalid, 0, FALSE)
VBool(b) == Val("bool", 0, b, <<>>, <<>>, <<>>, <<>>, Invalid, 0, FALSE)
\* a uint, a float64 (of integral value, or NaN), a complex128, an unsafe.Pointer
VNum(t, n) == Val(t, n, FALSE, <<>>, <<>>, <<>>, <<>>, Invalid, 0, FALSE)
VNaN == [VNum("float64", 0) EXCEPT !.nan = TRUE]
VComplex(re, im) == [VNum("complex128", re) EXCEPT !.im = im]
VPointer(addr) == Val("Pointer", 0, FALSE, <<>>, <<>>, <<>>, <<>>, Invalid, addr, FALSE)
\* a struct or array value: its fields or elements
VAgg(t, elems) == Val(t, 0, FALSE, <<>>, elems, <<>>, <<>>, Invalid, 0, FALSE)
\* a non-nil slice: its elements and Pointer(), the address of its first element
VSlice(t, elems, addr) == Val(t, 0, FALSE, <<>>, elems, <<>>, <<>>, Invalid, addr, FALSE)
\* a non-nil map: its keys and values in insertion order, and Pointer()
VMap(t, keys, vals, addr) == Val(t, 0, FALSE, <<>>, <<>>, keys, vals, Invalid, addr, FALSE)
\* a non-nil pointer: Elem() and Pointer(), the address of Elem()
VPtr(t, target, addr) == Val(t, 0, FALSE, <<>>, <<>>, <<>>, <<>>, target, addr, FALSE)
\* a nil pointer, slice or map of type t
VNil(t) == Val(t, 0, FALSE, <<>>, <<>>, <<>>, <<>>, Invalid, 0, TRUE)
\* an interface{} slot holding Elem(); empty when Elem() is Invalid
VIface(target) ==
    Val("iface", 0, FALSE, <<>>, <<>>, <<>>, <<>>, target, 0, target = Invalid)
VChan(t, addr) == Val(t, 0, FALSE, <<>>, <<>>, <<>>, <<>>, Invalid, addr, FALSE)

Heap ==
    [ i1 |-> VInt(1), i2 |-> VInt(2), i3 |-> VInt(3), i7 |-> VInt(7),
      i42 |-> VInt(42), i123 |-> VInt(123), i123456 |-> VInt(123456),
      sA |-> VStr(<<"a">>), sB |-> VStr(<<"b">>), sFoo |-> VStr(<<"f", "o", "o">>),
      sBar |-> VStr(<<"b", "a", "r">>), sBaz |-> VStr(<<"b", "a", "z">>), sBob |-> VStr(<<"b", "o", "b">>),
      sEmpty |-> VStr(<<>>), sHello |-> VStr(<<"h", "e", "l", "l", "o">>),
      sRec |-> VStr(<<"r", "e", "c", "u", "r", "s", "i", "v", "e">>), sRandom |-> VStr(<<"r", "a", "n", "d", "o", "m", "S", "t", "r", "i", "n", "g">>),
      bTrue |-> VBool(TRUE),
      iNil |-> VIface(Invalid),
      \* s := &testStruct{Name: "recursive"}; s.I = s
      pSelf |-> VPtr("ptrTestStruct", "vSelf", 16),
      vSelf |-> VAgg("testStruct", <<"sRec", "iSelf">>),
      iSelf |-> VIface("pSelf"),
      \* a := [2]interface{}{}; a[0] = &a; a[1] = &a
      pArr |-> VPtr("ptrArr2Iface", "aSelf", 32),
      aSelf |-> VAgg("arr2Iface", <<"iArr", "iArr">>),
      iArr |-> VIface("pArr"),
      \* s := []interface{}{nil}; s[0] = s
      slSelf |-> VSlice("sliceIface", <<"iSl">>, 48),
      iSl |-> VIface("slSelf"),
      \* m := map[string]interface{}{}; m["foo"] = m
      mSelf |-> VMap("mapStringIface", <<"sFoo">>, <<"iMap">>, 64),
      iMap |-> VIface("mSelf"),
      \* var i interface{}; i = &i
      pIf |-> VPtr("ptrIface", "iLoop", 80),
      iLoop |-> VIface("pIf"),
      \* type P *P; var p P; p = &p
      pP |-> VPtr("P", "pP", 96),
      mapInt |-> VMap("mapIntString", <<"i2", "i1">>, <<"sB", "sA">>, 112),
      a1 |-> VAgg("arr1Int", <<"i1">>), a2 |-> VAgg("arr1Int", <<"i2">>),
      mapArr |-> VMap("mapArrString", <<"a2", "a1">>, <<"sB", "sA">>, 128),
      \* two maps that differ only in the values of the keys' REMOVE field
      k1a |-> VAgg("K", <<"i1", "sA">>), k2b |-> VAgg("K", <<"i2", "sB">>),
      k2a |-> VAgg("K", <<"i2", "sA">>), k1b |-> VAgg("K", <<"i1", "sB">>),
      mapK1 |-> VMap("mapKInt", <<"k1a", "k2b">>, <<"i1", "i2">>, 144),
      mapK2 |-> VMap("mapKInt", <<"k2a", "k1b">>, <<"i1", "i2">>, 160),
      vRkkk |-> VAgg("Rkkk", <<"i1", "i2", "i3">>), vRrkk |-> VAgg("Rrkk", <<"i1", "i2", "i3">>),
      vRkrk |-> VAgg("Rkrk", <<"i1", "i2", "i3">>), vRkkr |-> VAgg("Rkkr", <<"i1", "i2", "i3">>),
      vRrrk |-> VAgg("Rrrk", <<"i1", "i2", "i3">>), vRrkr |-> VAgg("Rrkr", <<"i1", "i2", "i3">>),
      vRkrr |-> VAgg("Rkrr", <<"i1", "i2", "i3">>), vRrrr |-> VAgg("Rrrr", <<"i1", "i2", "i3">>),
      \* M{Name: "foo", I: &M{Name: "baz"}, m: "randomString", Test: &M{Name: "bar", m: "bob"}}
      vM |-> VAgg("M", <<"sFoo", "iMbaz", "sRandom", "pMbar">>),
      iMbaz |-> VIface("pMbaz"),
      pMbaz |-> VPtr("ptrM", "vMbaz", 176),
      vMbaz |-> VAgg("M", <<"sBaz", "iNil", "sEmpty", "pMnil">>),
      pMbar |-> VPtr("ptrM", "vMbar", 192),
      vMbar |-> VAgg("M", <<"sBar", "iNil", "sBob", "pMnil">>),
      pMnil |-> VNil("ptrM"),
      \* a MASK tag on a pointer, a slice, an array, a map, a channel and a bool
      vMX |-> VAgg("MX", <<"pInner", "slInts", "aStrs", "mSI", "ch", "bTrue", "i123456", "sRandom">>),
      pInner |-> VPtr("ptrInner", "vInner", 208),
      vInner |-> VAgg("Inner", <<"i123456", "sRandom">>),
      slInts |-> VSlice("sliceInt", <<"i123456", "i7">>, 224),
      aStrs |-> VAgg("arr2String", <<"sFoo", "sRandom">>),
      mSI |-> VMap("mapStringInt", <<"sRandom">>, <<"i123456">>, 240),
      ch |-> VChan("chanInt", 256),
      vRP |-> VAgg("RP", <<"sFoo", "iMbaz", "i42">>),
      \* struct { a int `redact:"MASK"`; b string }{123456, "foo"}
      vAnonS |-> VAgg("anonS", <<"i123456", "sFoo">>),
      \* two values that differ only in their REMOVE and REPLACE fields
      vSec1 |-> VAgg("Sec", <<"i42", "pInner", "sFoo">>),
      vSec2 |-> VAgg("Sec", <<"i42", "pInnerNil", "sBar">>),
      pInnerNil |-> VNil("ptrInner"),
      \* r := &RR{N: 42}; r.Self = r: REPLACE on a recursive and on a nil pointer
      pRR |-> VPtr("ptrRR", "vRR", 272),
      vRR |-> VAgg("RR", <<"pRR", "pInnerNil", "i42">>),
      \* struct { a int `redact:"REPLACE"`; b string }{123456, "foo"}
      vAnonR |-> VAgg("anonR", <<"i123456", "sFoo">>),
      \* []struct { a int `redact:"REMOVE"` }{{1}, {2}}
      slAnonRem |-> VSlice("sliceAnonRem", <<"vRem1", "vRem2">>, 288),
      vRem1 |-> VAgg("anonRem", <<"i1">>), vRem2 |-> VAgg("anonRem", <<"i2">>),
      \* t := T{42, "foo"}; FM{t, &t, []int{123456, 7}, t, []int{123456, 7}, &t, "hello"}
      vT |-> VAgg("T", <<"i42", "sFoo">>),
      pT |-> VPtr("ptrT", "vT", 304),
      vFM |-> VAgg("FM", <<"vT", "pT", "slInts", "vT", "slInts", "pT", "sHello">>),
      vTG |-> VAgg("TG", <<"sFoo", "sBar", "i42", "i123456">>),
      vU |-> VAgg("U", <<"i1", "i2", "sFoo">>),
      \* c := &MC{N: 42}; c.Self = c
      pMC |-> VPtr("ptrMC", "vMC", 800),
      vMC |-> VAgg("MC", <<"pMC", "i42">>),
      \* []interface{}{p, p} with p := &Inner{123456, "randomString"}
      slShared |-> VSlice("sliceIface", <<"iInner", "iInner">>, 544),
      iInner |-> VIface("pInner"),
      \* []map[string]interface{}{m, m} with m["foo"] = m
      slMM |-> VSlice("sliceMap", <<"mSelf", "mSelf">>, 560),
      \* o := Out{In: Inner{42, "foo"}}; o.P1 = &o.In; o.P2 = &o.In: the address
      \* of o.In, the first field of o, is the address of o
      vOut |-> VAgg("Out", <<"vIn", "pIn", "pIn">>),
      vIn |-> VAgg("Inner", <<"i42", "sFoo">>),
      pIn |-> VPtr("ptrInner", "vIn", 576),
      pOut |-> VPtr("ptrOut", "vOut", 576),
      \* maps of three entries for every scalar key kind
      bFalse |-> VBool(FALSE),
      mapBool |-> VMap("mapBoolInt", <<"bTrue", "bFalse">>, <<"i1", "i2">>, 320),
      iNeg |-> VInt(-3),
      mapInt3 |-> VMap("mapIntString", <<"i2", "iNeg", "i1">>, <<"sB", "sFoo", "sA">>, 336),
      u1 |-> VNum("uint", 1), u2 |-> VNum("uint", 2), u10 |-> VNum("uint", 10),
      mapUint |-> VMap("mapUintInt", <<"u10", "u2", "u1">>, <<"i3", "i2", "i1">>, 352),
      f1 |-> VNum("float64", 1), f2 |-> VNum("float64", 2), f10 |-> VNum("float64", 10),
      fNaN |-> VNaN,
      mapFloat |-> VMap("mapFloatInt", <<"f10", "f2", "f1">>, <<"i3", "i2", "i1">>, 368),
      \* m[2] = 2; m[math.NaN()] = 3; m[1] = 1
      mapNaN |-> VMap("mapFloatInt", <<"f2", "fNaN", "f1">>, <<"i2", "i3", "i1">>, 384),
      c12 |-> VComplex(1, 2), c13 |-> VComplex(1, 3), c21 |-> VComplex(2, 1),
      mapComplex |-> VMap("mapComplexInt", <<"c21", "c13", "c12">>, <<"i3", "i2", "i1">>, 400),
      sZ |-> VStr(<<"Z">>), sAb |-> VStr(<<"a", "b">>),
      mapStr |-> VMap("mapStringInt", <<"sAb", "sA", "sZ">>, <<"i3", "i2", "i1">>, 416),
      \* struct keys: K{1, "a"}, K{1, "b"}, K{2, "a"}
      mapK3 |-> VMap("mapKInt", <<"k2a", "k1b", "k1a">>, <<"i3", "i2", "i1">>, 432),
      \* keys no comparator is made for
      up1 |-> VPointer(448), up2 |-> VPointer(464),
      mapPointer |-> VMap("mapPointerInt", <<"up1", "up2">>, <<"i1", "i2">>, 480),
      mapPointer1 |-> VMap("mapPointerInt", <<"up1">>, <<"i1">>, 496),
      ka11 |-> VAgg("KA", <<"i1", "a1">>), ka12 |-> VAgg("KA", <<"i1", "a2">>),
      ka21 |-> VAgg("KA", <<"i2", "a1">>),
      mapKA |-> VMap("mapKAInt", <<"ka11", "ka12">>, <<"i1", "i2">>, 512),
      mapKAd |-> VMap("mapKAInt", <<"ka11", "ka21">>, <<"i1", "i2">>, 528),
      \* myIntType(12); mit := myIntType(42); &mit; myStringType("foo")
      mit12 |-> VNum("myIntType", 12), mit42 |-> VNum("myIntType", 42),
      pMit |-> VPtr("ptrMyIntType", "mit42", 592),
      msFoo |-> [VStr(<<"f", "o", "o">>) EXCEPT !.t = "myStringType"],
      \* s0 := "string0"; s0P := &s0; &s0, &s0P
      s0 |-> VStr(<<"s", "t", "r", "i", "n", "g", "0">>),
      pS0 |-> VPtr("ptrString", "s0", 608),
      ppS0 |-> VPtr("ptrPtrString", "pS0", 624),
      \* map[myIntType]string{12: "a", 42: "b"}
      mapMyInt |-> VMap("mapMyIntString", <<"mit42", "mit12">>, <<"sB", "sA">>, 640),
      \* (**string)(nil); one := 1; []*int{&one, nil}
      ppSNil |-> VNil("ptrPtrString"),
      pOne |-> VPtr("ptrInt", "i1", 656), pIntNil |-> VNil("ptrInt"),
      slPtrs |-> VSlice("slicePtrInt", <<"pOne", "pIntNil">>, 672),
      \* []*Inner{{123456, "randomString"}}
      slPtrInner |-> VSlice("slicePtrInner", <<"pInner">>, 688),
      \* struct{ a, b int }{1, 2}, by itself, in a slice and in a map
      vAB |-> VAgg("anonAB", <<"i1", "i2">>),
      slAB |-> VSlice("sliceAnonAB", <<"vAB">>, 704),
      mapAB |-> VMap("mapStringAnonAB", <<"sA">>, <<"vAB">>, 720),
      vNamed |-> VAgg("namedStruct", <<"i1", "i2">>),
      \* myStringSlice{"foo", "bar"}
      slMy |-> VSlice("myStringSlice", <<"sFoo", "sBar">>, 736),
      \* []int(nil), []int{}, and both, with a nil pointer, as the fields of
      \* an unnamed and of a named struct
      slIntNil |-> VNil("sliceInt"),
      slIntEmpty |-> VSlice("sliceInt", <<>>, 752),
      vAnonQ |-> VAgg("anonQ", <<"pIntNil", "slIntNil", "slIntEmpty", "iNil", "mit12", "ch">>),
      vNS |-> VAgg("NS", <<"pIntNil", "slIntNil", "slIntEmpty">>),
      \* s := &SA{A: [2]int{1, 2}}; s.P = &s.A: the address of s.A, the first
      \* field of *s, is the address of *s
      pSA |-> VPtr("ptrSA", "vSA", 768),
      vSA |-> VAgg("SA", <<"vArr12", "pArr12">>),
      vArr12 |-> VAgg("arr2Int", <<"i1", "i2">>),
      pArr12 |-> VPtr("ptrArr2Int", "vArr12", 768),
      \* sl := []E{{N: 1}}; sl[0].P = &sl[0]: the address of sl[0] is the
      \* address the slice starts at
      slE |-> VSlice("sliceE", <<"vE">>, 784),
      vE |-> VAgg("E", <<"i1", "pE">>),
      pE |-> VPtr("ptrE", "vE", 784) ]

\* v.Type().Kind(), with reflect.Invalid for the zero Value
KindOf(v) == IF v = Invalid THEN "invalid" ELSE TypeOf(heap[v].t).kind

-----------------------------------------------------------------------------
(* Cycle detection: the chain of visited identities, newest first; the nil *)
(* *traverseState is the empty chain                                       *)

\* forkFor that never reports an identity as visited
forkForBlind(s, ptr) == <<ptr>> \o s

\* traverseState.forkFor: nil when ptr is on the chain, else the chain
\* extended by a new node whose parent is s
forkFor(s, ptr) ==
    IF \E i \in 1..Len(s) : s[i] = ptr THEN <<>> ELSE <<ptr>> \o s

-----------------------------------------------------------------------------
(* Map-key canonicalizer *)

\* the bytes the model's strings are made of, in byte order
Alphabet ==
    <<"A", "B", "C", "D", "E", "F", "G", "H", "I", "J", "K", "L", "M", "N",
      "O", "P", "Q", "R", "S", "T", "U", "V", "W", "X", "Y", "Z",
      "a", "b", "c", "d", "e", "f", "g", "h", "i", "j", "k", "l", "m", "n",
      "o", "p", "q", "r", "s", "t", "u", "v", "w", "x", "y", "z">>

ByteOf(c) == CHOOSE i \in 1..Len(Alphabet) : Alphabet[i] = c

RECURSIVE StringLess(_, _)
\* Go's a < b on strings: byte-wise lexicographic
StringLess(a, b) ==
    IF b = <<>> THEN FALSE
    ELSE IF a = <<>> THEN TRUE
    ELSE IF Head(a) # Head(b) THEN ByteOf(Head(a)) < ByteOf(Head(b))
    ELSE StringLess(Tail(a), Tail(b))

\* what a call of a cmpFn gives: its int result, or a run-time panic
Returned(r) == [panic |-> FALSE, r |-> r]
Panicked == [panic |-> TRUE, r |-> 0]

ThreeWay(less, greater) == IF less THEN -1 ELSE IF greater THEN 1 ELSE 0

\* the run-time type descriptors, in address order
TypeLayout == <<"bool", "int", "string">>

\* Value.InterfaceData(): the type word and the data word of an interface
InterfaceData(v) ==
    LET e == heap[v].target
    IN  IF e = Invalid THEN <<0, 0>>
        ELSE <<CHOOSE i \in 1..Len(TypeLayout) : TypeLayout[i] = heap[e].t, heap[e].addr>>

RECURSIVE cmpForType(_)
\* cmpForType(t): the comparator for keys of type t (isNil: the nil cmpFn)
cmpForType(t) ==
    LET ty == TypeOf(t)
    IN  CASE ty.kind \in {"string", "bool", "int", "uint", "unsafeptr", "float",
                          "interface", "complex", "ptr", "chan"} ->
                [isNil |-> FALSE, kind |-> ty.kind, cmpLst |-> <<>>]
          [] ty.kind = "struct" ->
                [isNil |-> FALSE, kind |-> "struct",
                 cmpLst |-> [i \in 1..Len(ty.fields) |-> cmpForType(ty.fields[i].type)]]
          [] OTHER -> [isNil |-> TRUE, kind |-> "", cmpLst |-> <<>>]

\* a < b, a > b as the int a cmpFn returns
Compare(a, b) == Returned(ThreeWay(a < b, a > b))

\* Go's a < b on the float64s of values a and b: false when one is NaN
FloatLess(a, b) == ~heap[a].nan /\ ~heap[b].nan /\ heap[a].n < heap[b].n

\* the same on pairs, first component first
ComparePair(x, y) == IF x[1] # y[1] THEN Compare(x[1], y[1]) ELSE Compare(x[2], y[2])

\* a struct comparator that lets the first field decide, equal or not
FirstFieldDecides(rslt, cmp, a, b, i) == rslt

RECURSIVE callCmp(_, _, _)
RECURSIVE callCmpLst(_, _, _, _)
\* if rslt := cmp(a.Field(i), b.Field(i)); rslt != 0 { return rslt }
FieldDecides(rslt, cmp, a, b, i) ==
    IF rslt.panic \/ rslt.r # 0 THEN rslt ELSE callCmpLst(cmp, a, b, i + 1)

\* the struct comparator's loop over cmpLst from field i on
callCmpLst(cmp, a, b, i) ==
    IF i > Len(cmp.cmpLst) THEN Returned(0)
    ELSE FieldDecides(callCmp(cmp.cmpLst[i], heap[a].elems[i], heap[b].elems[i]),
                      cmp, a, b, i)

\* cmp(a, b) for a comparator cmpForType returned; calling the nil cmpFn, or
\* Value.Uint on an unsafe.Pointer, panics
callCmp(cmp, a, b) ==
    IF cmp.isNil THEN Panicked
    ELSE CASE cmp.kind = "string" ->
                Returned(ThreeWay(StringLess(heap[a].s, heap[b].s),
                                  StringLess(heap[b].s, heap[a].s)))
           [] cmp.kind = "bool" ->
                Returned(ThreeWay(~heap[a].b /\ heap[b].b, heap[a].b /\ ~heap[b].b))
           [] cmp.kind \in {"int", "uint"} -> Compare(heap[a].n, heap[b].n)
           [] cmp.kind = "float" -> Returned(ThreeWay(FloatLess(a, b), FloatLess(b, a)))
           [] cmp.kind = "unsafeptr" -> Panicked
           [] cmp.kind = "interface" -> ComparePair(InterfaceData(a), InterfaceData(b))
           [] cmp.kind = "complex" ->
                ComparePair(<<heap[a].n, heap[a].im>>, <<heap[b].n, heap[b].im>>)
           [] cmp.kind \in {"ptr", "chan"} -> Compare(heap[a].addr, heap[b].addr)
           [] OTHER -> callCmpLst(cmp, a, b, 1)

\* what sorting gives: the keys, or a panic out of the comparator
Sorted(k) == [panic |-> FALSE, k |-> k]
SortPanicked == [panic |-> TRUE, k |-> <<>>]

Swap(k, i, j) == [k EXCEPT ![i] = k[j], ![j] = k[i]]

RECURSIVE SortInner(_, _, _)
\* Less(j, j-1) gave c: swap and go on, or stop
SortInnerStep(c, cmp, k, j) ==
    IF c.panic THEN SortPanicked
    ELSE IF c.r < 0 THEN SortInner(cmp, Swap(k, j, j - 1), j - 1)
    ELSE Sorted(k)

\* sort.Sort on fewer than 12 elements is an insertion sort; its inner loop:
\* for j := i; j > a && Less(j, j-1); j-- { Swap(j, j-1) }
SortInner(cmp, k, j) ==
    IF j <= 1 THEN Sorted(k)
    ELSE SortInnerStep(callCmp(cmp, k[j], k[j - 1]), cmp, k, j)

RECURSIVE SortOuter(_, _, _)
SortOuterStep(r, cmp, i) == IF r.panic THEN r ELSE SortOuter(cmp, r.k, i + 1)

\* its outer loop: for i := a + 1; i < b; i++
SortOuter(cmp, k, i) ==
    IF i > Len(k) THEN Sorted(k)
    ELSE SortOuterStep(SortInner(cmp, k, i), cmp, i)

\* sort.Sort(sortableValueSlice{cmp, k}) unless cmp is nil
SortWith(cmp, k) == IF ~cmp.isNil THEN SortOuter(cmp, k, 2) ELSE Sorted(k)

\* tryAndSortMapKeys(mt, k): the keys after the call
tryAndSortMapKeys(mt, k) == SortWith(cmpForType(TypeOf(mt).key), k)

\* the orders Value.MapKeys() may return n keys in
NativeOrders(n) ==
    {f \in [1..n -> 1..n] : \A i, j \in 1..n : i # j => f[i] # f[j]}

-----------------------------------------------------------------------------
(* Redaction policy *)

REMOVE == "REMOVE"
REPLACE == "REPLACE"
MASK == "MASK"

\* a Lookup that finds the value of any key the field is annotated with
LookupAnyKey(f, key) == [ok |-> f.tagKey # "", tag |-> f.tagVal]

\* StructField.Tag.Lookup(key)
Lookup(f, key) == [ok |-> f.tagKey # "" /\ f.tagKey = key, tag |-> f.tagVal]

\* options.isRemoved(field)
isRemoved(o, f) ==
    LET l == Lookup(f, o.redact.tag)
    IN  IF ~l.ok THEN FALSE ELSE l.tag = REMOVE

-----------------------------------------------------------------------------
(* Type override registry *)

\* The formatters of the model.  "text" returns a text whatever it is given;
\* "typed" asserts that it is given a value of the type it is registered for
\* (as the formatters of TestRegisteredTypes do) and panics otherwise;
\* "panics" always panics.
Formatters == {"text", "typed", "panics"}

\* the text a formatter returns: the type-asserting formatter of T prints
\* the fields of the value as the one of TestRegisteredTypes does
\* (fmt.Sprintf("%s#%d", ...)), the others a fixed text
FormatterText(fn, v) ==
    IF fn = "typed" /\ heap[v].t = "T"
    THEN Cat(heap[heap[v].elems[2]].s) \o "#" \o Cat(FormatInt(heap[heap[v].elems[1]].n))
    ELSE "fmt"

\* what getInterface makes of a value: it returns (value, true), the value
\* being of the value's own type (own) or not, or (nil, false), or it panics
GotOwn == [ok |-> TRUE, panic |-> FALSE, own |-> TRUE]
GotOther == [ok |-> TRUE, panic |-> FALSE, own |-> FALSE]
GotPanic == [ok |-> FALSE, panic |-> TRUE, own |-> FALSE]

\* Value.CanInterface(): false once the value is reached through an
\* unexported struct field (path: the fields the value is reached through)
CanInterface(path) ==
    \A k \in 1..Len(path) : TypeOf(path[k].t).fields[path[k].i].exported

RECURSIVE Rebuilt(_)
\* getInterface on a value that cannot be interfaced, by kind
Rebuilt(v) ==
    LET ty == TypeOf(heap[v].t)
    IN  CASE ty.kind \in {"bool", "int", "uint", "float", "complex", "string"} ->
                \* the built-in type's value: int(v.Int()), v.String(), ...
                IF ty.str = builtinTypeMap(ty.kind) THEN GotOwn ELSE GotOther
          [] ty.kind \in {"array", "slice"} ->
                \* reflect.Copy into the zero Value panics
                GotPanic
          [] ty.kind \in {"chan", "func", "map", "ptr"} ->
                \* v.Pointer(), a uintptr
                GotOther
          [] ty.kind = "struct" ->
                \* a new struct filled field by field: Set panics on an
                \* unexported field and on a value of another type
                IF \A i \in 1..Len(ty.fields) :
                       ty.fields[i].exported /\ Rebuilt(heap[v].elems[i]) = GotOwn
                THEN GotOwn ELSE GotPanic
          [] OTHER ->
                \* the default case (interfaces): (nil, true)
                GotOther

\* getInterface(v)
getInterface(v, path) == IF CanInterface(path) THEN GotOwn ELSE Rebuilt(v)

\* typeFormatter(value): whether the call returns (it panics otherwise)
Returns(fn, got) == fn = "text" \/ (fn = "typed" /\ got.own)

\* callRegisteredTypeFormatter that lets the formatter's panic go on
callRegisteredTypeFormatterNoRecover(o, ptrs, vt, v, path, implicit) ==
    LET name == TypeOf(vt).str
    IN  IF name \in DOMAIN o.render.typeFormatters
        THEN IF getInterface(v, path).ok /\ Returns(o.render.typeFormatters[name], getInterface(v, path))
             THEN [formatted |-> TRUE, panic |-> FALSE,
                   w |-> (IF ~implicit THEN writeType(ptrs, vt) ELSE "")
                         \o "(" \o FormatterText(o.render.typeFormatters[name], v) \o ")"]
             ELSE [formatted |-> FALSE, panic |-> TRUE, w |-> ""]
        ELSE [formatted |-> FALSE, panic |-> FALSE, w |-> ""]

\* callRegisteredTypeFormatter that writes the formatter's text and nothing else
callRegisteredTypeFormatterBare(o, ptrs, vt, v, path, implicit) ==
    LET name == TypeOf(vt).str
    IN  IF name \in DOMAIN o.render.typeFormatters
        THEN IF getInterface(v, path).ok /\ Returns(o.render.typeFormatters[name], getInterface(v, path))
             THEN [formatted |-> TRUE, panic |-> FALSE,
                   w |-> FormatterText(o.render.typeFormatters[name], v)]
             ELSE [formatted |-> FALSE, panic |-> FALSE, w |-> ""]
        ELSE [formatted |-> FALSE, panic |-> FALSE, w |-> ""]

\* options.callRegisteredTypeFormatter for the value v reached through path:
\* whether the value was formatted, and the text appended to the builder.
\* A panic of getInterface or of the formatter is recovered: formatted is
\* false and nothing was written (the formatter is called before any write).
callRegisteredTypeFormatter(o, ptrs, vt, v, path, implicit) ==
    LET name == TypeOf(vt).str
    IN  IF name \in DOMAIN o.render.typeFormatters
        THEN IF getInterface(v, path).ok /\ Returns(o.render.typeFormatters[name], getInterface(v, path))
             THEN [formatted |-> TRUE, panic |-> FALSE,
                   w |-> (IF ~implicit THEN writeType(ptrs, vt) ELSE "")
                         \o "(" \o FormatterText(o.render.typeFormatters[name], v) \o ")"]
             ELSE [formatted |-> FALSE, panic |-> FALSE, w |-> ""]
        ELSE [formatted |-> FALSE, panic |-> FALSE, w |-> ""]

-----------------------------------------------------------------------------
(* Marshaller options *)

DefaultRedactTag == "redact"
DefaultReplacementPlaceholder == "redacted"
DefaultRecursionPlaceholder == "recursive"

\* an empty typeFormatters map
NoFormatters == [x \in {} |-> ""]

defaultRenderOptions ==
    [typeFormatters |-> NoFormatters, recursionPlaceholder |-> DefaultRecursionPlaceholder]

defaultRedactOptions ==
    [active |-> FALSE, tag |-> DefaultRedactTag,
     replacementPlaceholder |-> DefaultReplacementPlaceholder,
     maskingChar |-> defaultMaskingCharToBytes,
     maskingLength |-> DefaultMaskingLength, maskingReverse |-> FALSE]

\* newDefaultMarshaller().options
newDefaultMarshaller == [render |-> defaultRenderOptions, redact |-> defaultRedactOptions]

WithReplacementPlaceholder(o, text) == [o EXCEPT !.redact.replacementPlaceholder = text]
WithMaskingChar(o, bytes) == [o EXCEPT !.redact.maskingChar = bytes]
WithMaskingLength(o, n) == [o EXCEPT !.redact.maskingLength = n]
WithMaskingReverse(o) == [o EXCEPT !.redact.maskingReverse = TRUE]

\* the Marshallers of the model: the default one, the one of TestOptions
\* (length 2, reversed, '-'), one that masks everything, one that masks nothing
Marshallers ==
    { newDefaultMarshaller,
      WithMaskingChar(WithMaskingReverse(WithMaskingLength(
          WithReplacementPlaceholder(newDefaultMarshaller, "xxxx"), 2)), <<"-">>),
      WithMaskingLength(newDefaultMarshaller, -1),
      WithMaskingLength(newDefaultMarshaller, 0) }

-----------------------------------------------------------------------------
(* Marshaller construction *)

\* the characters tags are made of in the model, with their byte values: the
\* ends of the ranges of tagRegexString and their neighbours
TagBytes ==
    << <<"a", 97>>, <<"z", 122>>, <<"A", 65>>, <<"Z", 90>>, <<"0", 48>>, <<"9", 57>>,
       <<"_", 95>>, <<"-", 45>>, <<"^", 94>>, <<"{", 123>>, <<"@", 64>>, <<"[", 91>>,
       <<"/", 47>>, <<":", 58>>, <<" ", 32>>, <<"\n", 10>> >>

CodeOf(c) == (CHOOSE i \in 1..Len(TagBytes) : TagBytes[i][1] = c)

\* the byte value of character c
TagByte(c) == TagBytes[CodeOf(c)][2]

\* the character class [a-zA-Z0-9_-] of tagRegexString
InTagClass(b) ==
    \/ (TagByte("a") <= b /\ b <= TagByte("z"))
    \/ (TagByte("A") <= b /\ b <= TagByte("Z"))
    \/ (TagByte("0") <= b /\ b <= TagByte("9"))
    \/ b = TagByte("_")
    \/ b = TagByte("-")

\* tagRegex.MatchString(tag) for ^[a-zA-Z0-9_-]+$: one or more characters of
\* the class from the start to the end of the text
MatchString(tag) == Len(tag) >= 1 /\ \A i \in 1..Len(tag) : InTagClass(TagByte(tag[i]))

\* validateTag that accepts the empty tag
validateTagStar(tag) == \A i \in 1..Len(tag) : InTagClass(TagByte(tag[i]))

\* validateTag(tag): TRUE for the nil error
validateTag(tag) == MatchString(tag)

\* what a MarshallerOption returns: the Marshaller's options after it, and
\* whether it returned an error
Applied(o, err) == [m |-> o, err |-> err]

\* WithRedactTag(redactTag)(m)
WithRedactTag(o, redactTag) ==
    IF ~validateTag(redactTag) THEN Applied(o, TRUE)
    ELSE Applied([o EXCEPT !.redact.tag = Cat(redactTag)], FALSE)

\* WithTypeFormatter(typeName, typeFormatter)(m): a write to the map
\* m.options.render.typeFormatters
WithTypeFormatter(o, typeName, typeFormatter) ==
    Applied([o EXCEPT !.render.typeFormatters =
                [n \in DOMAIN @ \cup {typeName} |->
                    IF n = typeName THEN typeFormatter ELSE @[n]]], FALSE)

\* the options handed to NewMarshaller: nil, WithRedactTag(tag),
\* WithTypeFormatter(typeName, typeFormatter)
NilOption == [opt |-> "nil", tag |-> <<>>, typeName |-> "", typeFormatter |-> ""]
RedactTagOption(tag) ==
    [opt |-> "WithRedactTag", tag |-> tag, typeName |-> "", typeFormatter |-> ""]
TypeFormatterOption(typeName, typeFormatter) ==
    [opt |-> "WithTypeFormatter", tag |-> <<>>, typeName |-> typeName,
     typeFormatter |-> typeFormatter]

\* opt(m)
CallOption(opt, o) ==
    IF opt.opt = "WithRedactTag" THEN WithRedactTag(o, opt.tag)
    ELSE WithTypeFormatter(o, opt.typeName, opt.typeFormatter)

\* the rest of NewMarshaller's loop once option i returned r
OptionReturned(r, rest) == IF r.err THEN r ELSE rest

RECURSIVE ApplyOptions(_, _, _)
\* the loop of NewMarshaller over opts from index i on
ApplyOptions(o, os, i) ==
    IF i > Len(os) THEN Applied(o, FALSE)
    ELSE IF os[i] = NilOption THEN ApplyOptions(o, os, i + 1)
    ELSE OptionReturned(CallOption(os[i], o),
                        ApplyOptions(CallOption(os[i], o).m, os, i + 1))

\* a *Marshaller: the empty sequence for nil, else the Marshaller's redact
\* options in a sequence of one
Nil == <<>>

\* no NewMarshaller call made
NotMade == [given |-> <<>>, m |-> Nil, err |-> FALSE]

-----------------------------------------------------------------------------
(* The render call as a machine *)

\* One pending piece of work of a call.  op = "render": a call of
\* traverseState.render(masker, ptrs, v, implicit, opts) on chain s;
\* "field", "fieldSep", "maskField": where the struct loop stands for field i
\* of struct v; "write": a literal still to be written to the builder.
\* depth is the number of render frames on the Go stack; path lists the struct
\* fields (struct type, field index) the value is reached through.
Item(op, s, ptrs, v, i, implicit, masker, depth, path, text) ==
    [op |-> op, s |-> s, ptrs |-> ptrs, v |-> v, i |-> i, implicit |-> implicit,
     masker |-> masker, depth |-> depth, path |-> path, text |-> text]

NoMasker == NewMaskWriter(FALSE, defaultRedactOptions)

WriteItem(text) == Item("write", <<>>, 0, Invalid, 0, FALSE, NoMasker, 0, <<>>, text)

RenderItem(s, ptrs, v, implicit, masker, depth, path) ==
    Item("render", s, ptrs, v, 0, implicit, masker, depth, path, "")

FieldItem(op, it, s, i) ==
    Item(op, s, 0, it.v, i, FALSE, it.masker, it.depth, it.path, "")

\* fmt's %g of a float64 of integral value or NaN, and of a complex128
FormatFloat(v) == IF v.nan THEN <<"N", "a", "N">> ELSE FormatInt(v.n)
FormatComplex(v) ==
    <<"(">> \o FormatInt(v.n) \o (IF v.im >= 0 THEN <<"+">> ELSE <<>>)
    \o FormatInt(v.im) \o <<"i", ")">>

\* what one step of a call does: the text it writes at once, the work it puts
\* in front of the agenda, whether it panicked, and the scalar it wrote (the
\* bytes before and after the masking writer), if any
Did(w, push) == [w |-> w, push |-> push, panic |-> FALSE, wrote |-> <<>>]
DidWrite(w, p, written, it) ==
    [w |-> w, push |-> <<>>, panic |-> FALSE,
     wrote |-> <<[p |-> p, written |-> written, path |-> it.path, kind |-> KindOf(it.v)]>>]
DidPanic == [w |-> "", push |-> <<>>, panic |-> TRUE, wrote |-> <<>>]

\* a prefix written whatever implicit is
PrefixAlways(implicit, ptrs, vt) == writeType(ptrs, vt)

Prefix(implicit, ptrs, vt) == IF ~implicit THEN writeType(ptrs, vt) ELSE ""

RECURSIVE Elements(_, _, _, _, _)
\* the loop over the elements of a slice or array from index i on
Elements(it, s, anon, elems, i) ==
    IF i > Len(elems) THEN <<>>
    ELSE (IF i > 1 THEN <<WriteItem(", ")>> ELSE <<>>)
         \o <<RenderItem(s, 0, elems[i], anon, it.masker, it.depth + 1, it.path)>>
         \o Elements(it, s, anon, elems, i + 1)

\* Value.MapIndex(key): the zero Value when the key is not found, as a NaN
\* key never is
MapIndex(v, mk) ==
    IF heap[mk].nan THEN Invalid
    ELSE heap[v].vals[CHOOSE j \in 1..Len(heap[v].keys) : heap[v].keys[j] = mk]

RECURSIVE Pairs(_, _, _, _, _, _)
\* the loop over the sorted keys mkeys of map v from index i on
Pairs(it, s, keyAnon, valAnon, mkeys, i) ==
    IF i > Len(mkeys) THEN <<>>
    ELSE (IF i > 1 THEN <<WriteItem(", ")>> ELSE <<>>)
         \o <<RenderItem(s, 0, mkeys[i], keyAnon, it.masker, it.depth + 1, it.path),
              WriteItem(":"),
              RenderItem(s, 0, MapIndex(it.v, mkeys[i]), valAnon, it.masker,
                         it.depth + 1, it.path)>>
         \o Pairs(it, s, keyAnon, valAnon, mkeys, i + 1)

\* typeOfString, typeOfInt, typeOfUint or typeOfFloat .ConvertibleTo(kt)
ConvertibleToKey(kt) ==
    TypeOf(kt).kind \in {"string", "int", "uint", "float", "interface"}

\* Value.MapKeys() when the native order is `order`
MapKeys(v, order) == [i \in 1..Len(heap[v].keys) |-> heap[v].keys[order[i]]]

\* the non-nil map case of render once the keys are sorted: "{", the pairs, "}"
MapPairs(it, s, mkeys) ==
    IF mkeys.panic THEN DidPanic
    ELSE Did(Prefix(it.implicit, it.ptrs, heap[it.v].t) \o "{",
             Pairs(it, s, ConvertibleToKey(TypeOf(heap[it.v].t).key),
                   TypeOf(heap[it.v].t).name = "" /\ isAnon(TypeOf(heap[it.v].t).elem),
                   mkeys.k, 1)
             \o <<WriteItem("}")>>)

\* the Kind switch of traverseState.render (after the formatter and the cycle
\* test) for value it.v on the forked chain s; o is *opts as read by this
\* step and order the order MapKeys returns the keys in
renderKind(it, s, o, order) ==
    LET v == heap[it.v]
        vt == v.t
        ty == TypeOf(vt)
        vk == ty.kind
        ptrs == it.ptrs
        masker == it.masker
    IN  CASE vk = "struct" ->
                Did(Prefix(it.implicit, ptrs, vt) \o "{",
                    [i \in 1..Len(ty.fields) |-> FieldItem("field", it, s, i)]
                    \o <<WriteItem("}")>>)
          [] vk = "slice" /\ v.isNil ->
                Did(IF ~it.implicit THEN writeType(ptrs, vt) \o "(nil)" ELSE "nil", <<>>)
          [] vk \in {"slice", "array"} /\ ~v.isNil ->
                Did(Prefix(it.implicit, ptrs, vt) \o "{",
                    Elements(it, s, ty.name = "" /\ isAnon(ty.elem), v.elems, 1)
                    \o <<WriteItem("}")>>)
          [] vk = "map" ->
                IF v.isNil THEN Did(Prefix(it.implicit, ptrs, vt) \o "(nil)", <<>>)
                ELSE MapPairs(it, s, tryAndSortMapKeys(vt, MapKeys(it.v, order)))
          [] vk = "ptr" ->
                IF v.isNil THEN Did(writeType(ptrs + 1, vt) \o "(nil)", <<>>)
                ELSE Did("", <<RenderItem(s, ptrs + 1, v.target, FALSE, masker,
                                          it.depth + 1, it.path)>>)
          [] vk = "interface" ->
                IF v.isNil THEN Did(writeType(ptrs, vt) \o "(nil)", <<>>)
                ELSE Did("", <<RenderItem(s, ptrs, v.target, FALSE, masker,
                                          it.depth + 1, it.path)>>)
          [] vk \in {"chan", "func", "unsafeptr"} ->
                LET p == FormatPointer(v.addr)
                    written == Write(masker, p)
                IN  DidWrite(writeType(ptrs, vt) \o "(" \o Cat(written) \o ")", p, written, it)
          [] OTHER ->
                LET implicit == it.implicit \/ (ptrs = 0 /\ builtinTypeMap(vk) = ty.str)
                    open == IF ~implicit THEN writeType(ptrs, vt) \o "(" ELSE ""
                    close == IF ~implicit THEN ")" ELSE ""
                IN  IF vk = "string"
                    THEN LET value == IF masker.masked
                                      THEN Write(NewMaskWriter(masker.masked, o.redact), v.s)
                                      ELSE v.s
                         IN  DidWrite(open \o Cat(Quote(value)) \o close, v.s, value, it)
                    ELSE LET p == CASE vk = "bool" -> FormatBool(v.b)
                                    [] vk = "float" -> FormatFloat(v)
                                    [] vk = "complex" -> FormatComplex(v)
                                    [] OTHER -> FormatInt(v.n)
                             written == Write(masker, p)
                         IN  DidWrite(open \o Cat(written) \o close, p, written, it)

\* render that writes what the formatter made through the masking writer
renderMasksFormatted(it, o, order) ==
    IF KindOf(it.v) = "invalid" THEN Did("nil", <<>>)
    ELSE LET v == heap[it.v]
             vt == v.t
             vk == TypeOf(vt).kind
             fm == callRegisteredTypeFormatter(o, it.ptrs, vt, it.v, it.path, it.implicit)
             pe == CASE vk = "ptr" ->
                        IF KindOf(v.target) \in {"struct", "array"} THEN v.addr ELSE 0
                     [] vk \in {"slice", "map"} -> v.addr
                     [] OTHER -> 0
             s == IF pe # 0 THEN forkFor(it.s, pe) ELSE it.s
         IN  IF fm.formatted
             THEN Did(IF it.masker.masked
                      THEN Prefix(it.implicit, it.ptrs, vt) \o "("
                           \o Cat(Write(it.masker, <<"f", "m", "t">>)) \o ")"
                      ELSE fm.w, <<>>)
             ELSE IF pe # 0 /\ s = <<>>
             THEN Did("<" \o o.render.recursionPlaceholder \o "("
                      \o Prefix(it.implicit, it.ptrs, vt) \o ")>", <<>>)
             ELSE renderKind(it, s, o, order)

\* traverseState.render(masker, ptrs, v, implicit, opts): one call, up to its
\* recursive calls, which it leaves on the agenda
render(it, o, order) ==
    IF KindOf(it.v) = "invalid" THEN Did("nil", <<>>)
    ELSE LET v == heap[it.v]
             vt == v.t
             vk == TypeOf(vt).kind
             fm == callRegisteredTypeFormatter(o, it.ptrs, vt, it.v, it.path, it.implicit)
             pe == CASE vk = "ptr" ->
                        IF KindOf(v.target) \in {"struct", "array"} THEN v.addr ELSE 0
                     [] vk \in {"slice", "map"} -> v.addr
                     [] OTHER -> 0
             s == IF pe # 0 THEN forkFor(it.s, pe) ELSE it.s
         IN  IF fm.panic THEN DidPanic
             ELSE IF fm.formatted THEN Did(fm.w, <<>>)
             ELSE IF pe # 0 /\ s = <<>>
             THEN Did("<" \o o.render.recursionPlaceholder \o "("
                      \o Prefix(it.implicit, it.ptrs, vt) \o ")>", <<>>)
             ELSE renderKind(it, s, o, order)

\* the field a struct-loop item stands at, and the loop's anon for it
FieldOf(it) == TypeOf(heap[it.v].t).fields[it.i]
AnonOf(it) == TypeOf(heap[it.v].t).name = "" /\ isAnon(FieldOf(it).type)

\* the ", " before field i: written unless i is the first field or the field
\* before it is removed
Separator(it, o, active) ==
    IF it.i > 1 /\ (~active \/ ~isRemoved(o, TypeOf(heap[it.v].t).fields[it.i - 1]))
    THEN ", " ELSE ""

NameOf(it) == IF ~AnonOf(it) THEN FieldOf(it).name \o ":" ELSE ""

\* the value of the field, rendered by the struct loop or by redactField
FieldValue(it, masker) ==
    RenderItem(it.s, 0, heap[it.v].elems[it.i], AnonOf(it), masker, it.depth + 1,
               Append(it.path, [t |-> heap[it.v].t, i |-> it.i]))

\* redactField that renders a REPLACE field like a MASK field
redactFieldReplaceAsMask(it, o) ==
    LET l == Lookup(FieldOf(it), o.redact.tag)
        field == Separator(it, o, TRUE) \o NameOf(it)
    IN  IF ~l.ok THEN [ret |-> FALSE, w |-> "", push |-> <<>>]
        ELSE IF l.tag = REMOVE THEN [ret |-> TRUE, w |-> "", push |-> <<>>]
        ELSE [ret |-> TRUE, w |-> field, push |-> <<FieldItem("maskField", it, it.s, it.i)>>]

\* redactField that does not know REMOVE
redactFieldKeepsRemoved(it, o) ==
    LET l == Lookup(FieldOf(it), o.redact.tag)
        field == Separator(it, o, TRUE) \o NameOf(it)
    IN  IF ~l.ok \/ l.tag = REMOVE THEN [ret |-> FALSE, w |-> "", push |-> <<>>]
        ELSE IF l.tag = REPLACE
        THEN [ret |-> TRUE,
              w |-> field \o "<" \o o.redact.replacementPlaceholder \o ">",
              push |-> <<>>]
        ELSE [ret |-> TRUE, w |-> field, push |-> <<FieldItem("maskField", it, it.s, it.i)>>]

\* traverseState.redactField(masker, vt, v, i, anon, opts): what it returns,
\* the text it writes and the work it leaves
redactField(it, o) ==
    LET l == Lookup(FieldOf(it), o.redact.tag)
        field == Separator(it, o, TRUE) \o NameOf(it)
    IN  IF ~l.ok THEN [ret |-> FALSE, w |-> "", push |-> <<>>]
        ELSE IF l.tag = REMOVE THEN [ret |-> TRUE, w |-> "", push |-> <<>>]
        ELSE IF l.tag = REPLACE
        THEN [ret |-> TRUE,
              w |-> field \o "<" \o o.redact.replacementPlaceholder \o ">",
              push |-> <<>>]
        ELSE IF l.tag = MASK \/ it.masker.masked
        THEN [ret |-> TRUE, w |-> field, push |-> <<FieldItem("maskField", it, it.s, it.i)>>]
        ELSE [ret |-> FALSE, w |-> field, push |-> <<>>]

-----------------------------------------------------------------------------
(* State *)

Threads == {1, 2}

\* the values Render and Redact are called on
Roots ==
    { Invalid, "i123", "sHello", "pSelf", "pArr", "slSelf", "mSelf", "pIf", "pP",
      "mapInt", "mapArr", "mapK1", "mapK2",
      "vRkkk", "vRrkk", "vRkrk", "vRkkr", "vRrrk", "vRrkr", "vRkrr", "vRrrr",
      "vM", "vMX", "vRP", "vAnonS", "vSec1", "vSec2", "pRR", "vAnonR", "slAnonRem" }

\* a goroutine's call: pc is where it stands ("idle": no call made yet;
\* "entered": active is set; "run": traversing; "done": returned;
\* "overflow": the stack limit was hit; "panic": a panic left the call).
\* alone, orders, redacted and wrote record the run: whether no other call ran
\* meanwhile, the key orders MapKeys returned, the number of fields
\* redactField handled, the last scalar written.
Call(pc, mode, root, alone) ==
    [pc |-> pc, mode |-> mode, root |-> root, agenda |-> <<>>, out |-> "",
     alone |-> alone, orders |-> <<>>, redacted |-> 0, wrote |-> <<>>,
     fmts |-> NoFormatters]

NoCall == Call("idle", "", Invalid, TRUE)

\* what is kept of a finished call
Summary(c) ==
    <<[mode |-> c.mode, root |-> c.root, orders |-> c.orders, out |-> c.out, pc |-> c.pc]>>

\* no MaskWriter under test
NoWrite ==
    [w |-> NewMaskWriter(FALSE, defaultRedactOptions), p |-> <<>>, out |-> <<>>,
     done |-> FALSE]

\* a Marshaller built with one of the option sets ms, no call made yet
InitWith(ms) ==
    /\ opts \in ms
    /\ calls = [t \in Threads |-> NoCall]
    /\ prev = <<>>
    /\ mw = NoWrite
    /\ made = NotMade
    /\ heap = Heap
    /\ types = Types

Init == InitWith(Marshallers)

Running(c) == c.pc \in {"entered", "run"}

RECURSIVE Settle(_)
\* writes the literals at the front of the agenda: [out, agenda] -> the same
Settle(c) ==
    IF c.agenda # <<>> /\ Head(c.agenda).op = "write"
    THEN Settle([c EXCEPT !.out = @ \o Head(c.agenda).text, !.agenda = Tail(@)])
    ELSE c

\* the call after a step that wrote w and left push in place of the head
After(c, w, push) ==
    Settle([c EXCEPT !.out = @ \o w, !.agenda = push \o Tail(@)])

-----------------------------------------------------------------------------
(* Actions *)

\* the entry of Marshaller.Render or Marshaller.Redact by goroutine t on
\* value v: opts := m.options; opts.redact.active = active.  With keep, the
\* call t made before (if it ran alone) may be remembered in prev.
Enter(t, mode, v, keep, active) ==
    /\ calls[t].pc \in {"idle", "done"}
    /\ opts' = [opts EXCEPT !.redact.active = active]
    /\ calls' = [u \in Threads |->
                    IF u = t
                    THEN [Call("entered", mode, v,
                               \A x \in Threads \ {t} : ~Running(calls[x]))
                            EXCEPT !.fmts = opts.render.typeFormatters]
                    ELSE IF Running(calls[u]) THEN [calls[u] EXCEPT !.alone = FALSE]
                    ELSE calls[u]]
    /\ prev' \in IF keep /\ calls[t].pc = "done" /\ calls[t].alone
                    /\ calls[t].fmts = NoFormatters
                 THEN {prev, Summary(calls[t])} ELSE {prev}
    /\ UNCHANGED <<mw, made, heap, types>>

\* Marshaller.Render that leaves opts.redact.active as the call before set it
RenderLeavesActive(t, v, keep) == Enter(t, "Render", v, keep, opts.redact.active)

\* Marshaller.Render(v), up to opts.redact.active = false
Render(t, v, keep) == Enter(t, "Render", v, keep, FALSE)

\* Marshaller.Redact(v), up to opts.redact.active = true
Redact(t, v, keep) == Enter(t, "Redact", v, keep, TRUE)

\* NewMarshaller(os...), made while no call runs.  newDefaultMarshaller
\* copies defaultRenderOptions, whose typeFormatters is one map: the new
\* Marshaller starts with the formatters registered so far, and what the
\* options register stays registered when a later option fails.  The
\* Marshaller returned is the one the calls that follow use.
NewMarshaller(os) ==
    /\ \A t \in Threads : ~Running(calls[t])
    /\ made' = [given |-> os,
                m |-> IF ApplyOptions(newDefaultMarshaller, os, 1).err THEN Nil
                      ELSE <<ApplyOptions(newDefaultMarshaller, os, 1).m.redact>>,
                err |-> ApplyOptions(newDefaultMarshaller, os, 1).err]
    /\ opts' = IF ApplyOptions(newDefaultMarshaller, os, 1).err
               THEN [opts EXCEPT !.render.typeFormatters =
                        ApplyOptions([newDefaultMarshaller EXCEPT !.render.typeFormatters =
                                         opts.render.typeFormatters], os, 1).m.render.typeFormatters]
               ELSE ApplyOptions([newDefaultMarshaller EXCEPT !.render.typeFormatters =
                                     opts.render.typeFormatters], os, 1).m
    /\ UNCHANGED <<calls, prev, mw, heap, types>>

\* str := NewDefaultMaskWriter(false, opts.redact); s.render(str, 0, v, false, opts)
\* with s the nil *traverseState
StartRender(t) ==
    /\ calls[t].pc = "entered"
    /\ calls' = [calls EXCEPT ![t] =
                    [@ EXCEPT !.pc = "run",
                              !.agenda = <<RenderItem(<<>>, 0, calls[t].root, FALSE,
                                                      NewMaskWriter(FALSE, opts.redact),
                                                      1, <<>>)>>]]
    /\ UNCHANGED <<opts, prev, mw, made, heap, types>>

Head1(t) == Head(calls[t].agenda)

AtOp(t, op) ==
    /\ calls[t].pc = "run"
    /\ calls[t].agenda # <<>>
    /\ Head1(t).op = op

\* the call after its head, a call of render, did d with key order `order`
Rendered(c, d, order) ==
    IF d.panic
    THEN [c EXCEPT !.pc = "panic"]
    ELSE After([c EXCEPT !.wrote = IF d.wrote # <<>> THEN d.wrote ELSE @,
                         !.orders = IF Len(order) > 1 THEN Append(@, order) ELSE @],
               d.w, d.push)

\* one call of traverseState.render
RenderValue(t) ==
    /\ AtOp(t, "render")
    /\ Head1(t).depth <= MaxDepth
    /\ \E order \in NativeOrders(IF KindOf(Head1(t).v) = "map"
                                 THEN Len(heap[Head1(t).v].keys) ELSE 0) :
          calls' = [calls EXCEPT ![t] = Rendered(@, render(Head1(t), opts, order), order)]
    /\ UNCHANGED <<opts, prev, mw, made, heap, types>>

\* the Go run time ends the program when the recursion outgrows the stack
StackOverflow(t) ==
    /\ AtOp(t, "render")
    /\ Head1(t).depth > MaxDepth
    /\ calls' = [calls EXCEPT ![t].pc = "overflow"]
    /\ UNCHANGED <<opts, prev, mw, made, heap, types>>

\* the call after redactField returned r for the field item it
Redacted(c, it, r) ==
    IF r.ret
    THEN After([c EXCEPT !.redacted = @ + 1], r.w, r.push)
    ELSE After(c, r.w, <<FieldItem("fieldSep", it, it.s, it.i)>>)

\* the struct loop at field i: if opts.redact.active && s.redactField(...) { continue }
StructField(t) ==
    /\ AtOp(t, "field")
    /\ calls' = [calls EXCEPT ![t] =
            IF ~opts.redact.active
            THEN After(@, "", <<FieldItem("fieldSep", Head1(t), Head1(t).s, Head1(t).i)>>)
            ELSE Redacted(@, Head1(t), redactField(Head1(t), opts))]
    /\ UNCHANGED <<opts, prev, mw, made, heap, types>>

\* the rest of the loop body: the separator (if i > 0 && (!opts.redact.active ||
\* !opts.isRemoved(vt.Field(i-1)))), the name, and the call of render
FieldSeparator(t) ==
    /\ AtOp(t, "fieldSep")
    /\ LET it == Head1(t)
       IN  calls' = [calls EXCEPT ![t] =
                After(@, Separator(it, opts, opts.redact.active) \o NameOf(it),
                      <<FieldValue(it, it.masker)>>)]
    /\ UNCHANGED <<opts, prev, mw, made, heap, types>>

\* redactField's MASK case rendering the field through the masker it was given
MaskFieldAsGiven(t) ==
    /\ AtOp(t, "maskField")
    /\ calls' = [calls EXCEPT ![t] =
            After(@, "", <<FieldValue(Head1(t), Head1(t).masker)>>)]
    /\ UNCHANGED <<opts, prev, mw, made, heap, types>>

\* redactField's MASK case: maskedMasker := NewMaskWriter(masker.str, true,
\* opts.redact); s.render(maskedMasker, 0, v.Field(i), anon, opts)
MaskField(t) ==
    /\ AtOp(t, "maskField")
    /\ LET it == Head1(t)
       IN  calls' = [calls EXCEPT ![t] =
                After(@, "", <<FieldValue(it, NewMaskWriter(TRUE, opts.redact))>>)]
    /\ UNCHANGED <<opts, prev, mw, made, heap, types>>

\* return str.String()
Return(t) ==
    /\ calls[t].pc = "run"
    /\ calls[t].agenda = <<>>
    /\ calls' = [calls EXCEPT ![t].pc = "done"]
    /\ UNCHANGED <<opts, prev, mw, made, heap, types>>

Step(t) ==
    \/ StartRender(t)
    \/ RenderValue(t)
    \/ StackOverflow(t)
    \/ StructField(t)
    \/ FieldSeparator(t)
    \/ MaskField(t)
    \/ Return(t)

\* calls made one after the other by one goroutine on one Marshaller
Next ==
    \/ \E v \in Roots : Render(1, v, FALSE)
    \/ \E v \in Roots : Redact(1, v, FALSE)
    \/ Step(1)

Spec == Init /\ [][Next]_vars

-----------------------------------------------------------------------------
(* Marshallers built with type formatters, one after the other.  The calls *)
(* made before any formatter is registered are remembered in prev.         *)

RootsFmt == { "vT", "vFM", "pP" }

\* the option lists NewMarshaller is called with
OptionsFmt ==
    { <<TypeFormatterOption("render.T", "text")>>,
      <<TypeFormatterOption("render.T", "panics"), TypeFormatterOption("string", "panics")>>,
      <<TypeFormatterOption("render.T", "typed"), NilOption,
        TypeFormatterOption("*render.T", "typed"), TypeFormatterOption("[]int", "typed")>>,
      <<TypeFormatterOption("*render.T", "text"), TypeFormatterOption("int", "text")>> }

InitFmt == InitWith({newDefaultMarshaller})

NextFmt ==
    \/ \E os \in OptionsFmt : NewMarshaller(os)
    \/ \E v \in RootsFmt : Render(1, v, TRUE)
    \/ \E v \in RootsFmt : Redact(1, v, TRUE)
    \/ Step(1)

SpecFmt == InitFmt /\ [][NextFmt]_vars

-----------------------------------------------------------------------------
(* Calls one after the other, an earlier call remembered *)

RootsSeq ==
    { "mapInt", "mapArr", "mapK1", "mapK2", "vSec1", "vSec2", "vRP", "vAnonS", "pP" }

InitSeq == InitWith({newDefaultMarshaller, WithMaskingLength(newDefaultMarshaller, 0)})

NextSeq ==
    \/ \E v \in RootsSeq : Render(1, v, TRUE)
    \/ \E v \in RootsSeq : Redact(1, v, TRUE)
    \/ Step(1)

SpecSeq == InitSeq /\ [][NextSeq]_vars

-----------------------------------------------------------------------------
(* Two goroutines calling one Marshaller *)

RootsConc == { "vSec1", "vAnonS", "pP" }

InitConc == InitWith({newDefaultMarshaller})

NextConc ==
    \E t \in Threads :
        \/ \E v \in RootsConc : Render(t, v, TRUE)
        \/ \E v \in RootsConc : Redact(t, v, TRUE)
        \/ Step(t)

SpecConc == InitConc /\ [][NextConc]_vars

-----------------------------------------------------------------------------
(* MaskWriter.Write on its own: every writer over every short content *)

\* the byte strings of length at most n over S
SeqsUpTo(S, n) == UNION {[1..k -> S] : k \in 0..n}

\* the mask characters as WithMaskingChar encodes them: '#' (one byte) and
\* a rune of two bytes
MaskingChars == { <<"#">>, <<"\\xc2", "\\xa4">> }

\* the redactOptions a MaskWriter may be built with
RedactOptions ==
    { [defaultRedactOptions EXCEPT !.active = a, !.maskingLength = l,
                                   !.maskingReverse = r, !.maskingChar = c] :
        a \in BOOLEAN, l \in -1..(MaxLen + 1), r \in BOOLEAN, c \in MaskingChars }

InitMask ==
    /\ opts = newDefaultMarshaller
    /\ calls = [t \in Threads |-> NoCall]
    /\ prev = <<>>
    /\ made = NotMade
    /\ heap = Heap
    /\ types = Types
    /\ mw \in { [w |-> NewMaskWriter(m, o), p |-> p, out |-> <<>>, done |-> FALSE] :
                   m \in BOOLEAN, o \in RedactOptions, p \in SeqsUpTo({"a", "b"}, MaxLen) }

\* w.Write(p)
WriteBytes ==
    /\ ~mw.done
    /\ mw' = [mw EXCEPT !.out = Write(mw.w, mw.p), !.done = TRUE]
    /\ UNCHANGED <<opts, calls, prev, made, heap, types>>

NextMask == WriteBytes

SpecMask == InitMask /\ [][NextMask]_vars

-----------------------------------------------------------------------------
(* Values that hold one reference in several places *)

RootsShared == { "slShared", "slMM", "vOut", "pOut", "vAnonS", "pP" }

NextShared ==
    \/ \E v \in RootsShared : Render(1, v, FALSE)
    \/ \E v \in RootsShared : Redact(1, v, FALSE)
    \/ Step(1)

SpecShared == InitFmt /\ [][NextShared]_vars

-----------------------------------------------------------------------------
(* Maps of every key kind *)

RootsMap ==
    { "mapBool", "mapInt3", "mapUint", "mapFloat", "mapNaN", "mapComplex", "mapStr",
      "mapK3", "mapArr", "mapPointer", "mapPointer1", "mapKA", "mapKAd",
      "vAnonS", "pP" }

NextMap ==
    \/ \E v \in RootsMap : Render(1, v, FALSE)
    \/ \E v \in RootsMap : Redact(1, v, FALSE)
    \/ Step(1)

SpecMap == InitFmt /\ [][NextMap]_vars

-----------------------------------------------------------------------------
(* One Marshaller built with a redact tag, and the calls made on it when *)
(* NewMarshaller returned one                                            *)

MaxTagLen == 2

\* the tags WithRedactTag is given, as sequences of characters
Tags == SeqsUpTo({TagBytes[i][1] : i \in 1..Len(TagBytes)}, MaxTagLen)

OptionsTag ==
    { <<>>, <<NilOption>> }
    \cup { <<RedactTagOption(tag)>> : tag \in Tags }
    \cup { <<NilOption, RedactTagOption(tag), NilOption>> : tag \in Tags }

RootsTag == { "vTG", "pP" }

\* m, err := NewMarshaller(os...)
Build(os) == made = NotMade /\ NewMarshaller(os)

\* m.Render(v), m.Redact(v) when err == nil
NextTag ==
    \/ \E os \in OptionsTag : Build(os)
    \/ \E v \in RootsTag : made # NotMade /\ ~made.err /\ Render(1, v, FALSE)
    \/ \E v \in RootsTag : made # NotMade /\ ~made.err /\ Redact(1, v, FALSE)
    \/ Step(1)

SpecTag == InitFmt /\ [][NextTag]_vars

-----------------------------------------------------------------------------
(* The values of TestRenderList and TestRenderImplicitType: scalars of     *)
(* built-in and named types, pointers to them, nil pointers and slices,    *)
(* unnamed and named composite types                                       *)

RootsList ==
    { "i123", "sHello", "mit12", "pMit", "msFoo", "pS0", "ppS0", "mapMyInt",
      "pMnil", "ppSNil", "slPtrs", "slPtrInner", "vAB", "slAB", "mapAB", "vNamed",
      "slMy", "slIntNil", "slIntEmpty", "vAnonQ", "vNS", "vAnonS", "pP" }

NextList ==
    \/ \E v \in RootsList : Render(1, v, FALSE)
    \/ \E v \in RootsList : Redact(1, v, FALSE)
    \/ Step(1)

SpecList == InitFmt /\ [][NextList]_vars

-----------------------------------------------------------------------------
(* The package-level Render and Redact, called between the constructions of *)
(* Marshallers with type formatters                                         *)

RootsPkg == { "vT", "vFM", "pP" }

\* the option lists NewMarshaller is called with: one that succeeds, and one
\* whose second option returns an error
OptionsPkg ==
    { <<TypeFormatterOption("render.T", "text")>>,
      <<TypeFormatterOption("*render.T", "text"), RedactTagOption(<<>>)>> }

\* Render(v), Redact(v) of the package: m := newDefaultMarshaller(), and the
\* entry of m.Render(v) or m.Redact(v).  The typeFormatters of the new
\* Marshaller is the map of defaultRenderOptions.
PackageCall(t, mode, v) ==
    /\ calls[t].pc \in {"idle", "done"}
    /\ opts' = [newDefaultMarshaller EXCEPT
                   !.render.typeFormatters = opts.render.typeFormatters,
                   !.redact.active = (mode = "Redact")]
    /\ calls' = [calls EXCEPT ![t] =
                    [Call("entered", mode, v, TRUE)
                        EXCEPT !.fmts = opts.render.typeFormatters]]
    /\ prev' \in IF calls[t].pc = "done" /\ calls[t].fmts = NoFormatters
                 THEN {prev, Summary(calls[t])} ELSE {prev}
    /\ UNCHANGED <<mw, made, heap, types>>

NextPkg ==
    \/ \E os \in OptionsPkg : NewMarshaller(os)
    \/ \E v \in RootsPkg : PackageCall(1, "Render", v)
    \/ \E v \in RootsPkg : PackageCall(1, "Redact", v)
    \/ Step(1)

SpecPkg == InitFmt /\ [][NextPkg]_vars

-----------------------------------------------------------------------------
(* Values that start at the address of the value that holds them *)

RootsAlias == { "pSA", "slE", "pOut", "pSelf", "slSelf", "vAnonS", "pP" }

NextAlias ==
    \/ \E v \in RootsAlias : Render(1, v, FALSE)
    \/ \E v \in RootsAlias : Redact(1, v, FALSE)
    \/ Step(1)

SpecAlias == InitFmt /\ [][NextAlias]_vars

-----------------------------------------------------------------------------
(* Render and Redact of one value, under several annotation keys *)

RootsPlain ==
    { "vU", "vTG", "vNamed", "vSec1", "pSelf", "mapInt", "slPtrs", "vAnonQ", "vAnonS", "pP" }

\* NewMarshaller(), NewMarshaller(WithRedactTag("a-")) and
\* NewMarshaller(WithRedactTag("z"))
InitPlain ==
    InitWith({newDefaultMarshaller, WithRedactTag(newDefaultMarshaller, <<"a", "-">>).m,
              WithRedactTag(newDefaultMarshaller, <<"z">>).m})

NextPlain ==
    \/ \E v \in RootsPlain : Render(1, v, TRUE)
    \/ \E v \in RootsPlain : Redact(1, v, TRUE)
    \/ Step(1)

SpecPlain == InitPlain /\ [][NextPlain]_vars

-----------------------------------------------------------------------------
(* Values with fields tagged MASK, under the four Marshallers *)

RootsMasked == { "vM", "vMX", "vAnonS", "pMC", "pP" }

NextMasked ==
    \/ \E v \in RootsMasked : Render(1, v, FALSE)
    \/ \E v \in RootsMasked : Redact(1, v, FALSE)
    \/ Step(1)

SpecMasked == Init /\ [][NextMasked]_vars

-----------------------------------------------------------------------------
(* Properties *)

\* C8: partial masking.  A masking writer with redaction active and a masking
\* length L with 0 <= L < len(content) writes, in the default direction, L
\* mask characters and then content[L:] unchanged, and in the reverse
\* direction content[:len-L] unchanged and then L mask characters; with a
\* one-byte mask character it writes exactly len(content) bytes.
PartialMasking ==
    LET L == mw.w.options.maskingLength
        c == mw.w.options.maskingChar
        n == Len(mw.p)
        k == L * Len(c)
    IN  (mw.done /\ mw.w.masked /\ mw.w.options.active /\ 0 <= L /\ L < n) =>
            /\ Len(mw.out) = n - L + k
            /\ Len(c) = 1 => Len(mw.out) = n
            /\ ~mw.w.options.maskingReverse =>
                    /\ \A i \in 1..k : mw.out[i] = c[((i - 1) % Len(c)) + 1]
                    /\ \A i \in 1..(n - L) : mw.out[k + i] = mw.p[L + i]
            /\ mw.w.options.maskingReverse =>
                    /\ \A i \in 1..(n - L) : mw.out[i] = mw.p[i]
                    /\ \A i \in 1..k : mw.out[n - L + i] = c[((i - 1) % Len(c)) + 1]

\* "aba" written through a reverse writer of length 1 came out as "ab#"
PartialMaskingSeen ==
    /\ mw.done /\ mw.w.masked /\ mw.w.options.active
    /\ mw.w.options.maskingReverse /\ mw.w.options.maskingLength = 1
    /\ mw.p = <<"a", "b", "a">> /\ mw.out = <<"a", "b", "#">>

\* C9: whole masking.  A masking writer with redaction active and a masking
\* length L that is negative or at least len(content) writes the mask
\* character len(content) times and nothing else: an empty content stays
\* empty, and only the length of the content shows.
WholeMasking ==
    LET L == mw.w.options.maskingLength
        c == mw.w.options.maskingChar
        n == Len(mw.p)
    IN  (mw.done /\ mw.w.masked /\ mw.w.options.active /\ (L < 0 \/ L >= n)) =>
            /\ Len(mw.out) = n * Len(c)
            /\ \A i \in 1..(n * Len(c)) : mw.out[i] = c[((i - 1) % Len(c)) + 1]
            /\ n = 0 => mw.out = <<>>

\* three bytes written through a writer of length 4 came out as "###"
WholeMaskingSeen ==
    /\ mw.done /\ mw.w.masked /\ mw.w.options.active
    /\ mw.w.options.maskingLength = 4 /\ Len(mw.p) = 3
    /\ mw.out = <<"#", "#", "#">>

\* the identity the cycle guard keeps for value v: the address of a pointer
\* to a struct or an array, of a slice's data, of a map; 0 for all else
Identity(v) ==
    CASE KindOf(v) = "ptr" /\ KindOf(heap[v].target) \in {"struct", "array"} -> heap[v].addr
      [] KindOf(v) \in {"slice", "map"} -> heap[v].addr
      [] OTHER -> 0

\* the call of render at the head of t's agenda meets an identity that is
\* open on its path
MeetsOpen(t) ==
    /\ AtOp(t, "render")
    /\ Head1(t).depth <= MaxDepth
    /\ Identity(Head1(t).v) # 0
    /\ \E i \in 1..Len(Head1(t).s) : Head1(t).s[i] = Identity(Head1(t).v)

\* "<" + recursion placeholder + "(" + type unless implicit + ")>"
Placeholder(it) ==
    "<" \o opts.render.recursionPlaceholder \o "("
        \o (IF it.implicit THEN "" ELSE writeType(it.ptrs, heap[it.v].t)) \o ")>"

\* C1: cycle safety.  A call of render on a pointer to a struct or array, a
\* slice or a map whose identity is already open on the traversal path
\* writes the recursion placeholder and leaves no work for the value (it
\* does not descend); and Render of a struct whose field I points back to
\* the struct returns the struct once with I:<recursive(*render.testStruct)>.
CycleSafety ==
    [][\A t \in Threads :
          /\ (MeetsOpen(t) /\ calls'[t].agenda # calls[t].agenda) =>
                /\ calls'[t].out = After(calls[t], Placeholder(Head1(t)), <<>>).out
                /\ calls'[t].agenda = After(calls[t], Placeholder(Head1(t)), <<>>).agenda
          /\ (calls'[t].pc = "done" /\ calls'[t].root = "pSelf") =>
                calls'[t].out =
                  "(*render.testStruct){Name:\"recursive\", I:<recursive(*render.testStruct)>}"]_vars

\* the self-referential struct was rendered and the placeholder is in the text
CycleSafetySeen ==
    /\ calls[1].pc = "done" /\ calls[1].root = "pSelf" /\ calls[1].mode = "Render"
    /\ calls[1].out =
         "(*render.testStruct){Name:\"recursive\", I:<recursive(*render.testStruct)>}"

\* C2: termination.  No call of Render or Redact outgrows the stack: on every
\* value graph, cyclic ones included, the recursion stays within MaxDepth
\* frames (the acyclic depth of the model's values is below it).
NoRunawayRecursion == \A t \in Threads : calls[t].pc # "overflow"

\* field f is taken out of the output by Redact
Removed(f) == f.tagKey = DefaultRedactTag /\ f.tagVal = REMOVE

RECURSIVE SurvivingFields(_, _, _)
\* the fields of struct v from index i on that Redact keeps, as name:value,
\* with ", " between each two of them
SurvivingFields(v, i, first) ==
    IF i > Len(TypeOf(heap[v].t).fields) THEN ""
    ELSE IF Removed(TypeOf(heap[v].t).fields[i]) THEN SurvivingFields(v, i + 1, first)
    ELSE (IF first THEN "" ELSE ", ")
         \o TypeOf(heap[v].t).fields[i].name \o ":"
         \o Cat(FormatInt(heap[heap[v].elems[i]].n))
         \o SurvivingFields(v, i + 1, FALSE)

\* the structs of three int fields A, B, C under every assignment of REMOVE
RemoveStructs ==
    {"vRkkk", "vRrkk", "vRkrk", "vRkkr", "vRrrk", "vRrkr", "vRkrr", "vRrrr"}

\* C4: separator placement under REMOVE.  Redact of a struct writes the
\* fields that are not tagged REMOVE in declaration order with exactly one
\* ", " between each two consecutive ones, whatever removed fields lie
\* between them, none before the first and none after the last.
SeparatorPlacement ==
    \A t \in Threads :
        (calls[t].pc = "done" /\ calls[t].mode = "Redact" /\ calls[t].root \in RemoveStructs) =>
            calls[t].out = TypeOf(heap[calls[t].root].t).str \o "{"
                             \o SurvivingFields(calls[t].root, 1, TRUE) \o "}"

\* some field on the path carries the tag MASK
OnMaskedPath(path) ==
    \E k \in 1..Len(path) :
        /\ TypeOf(path[k].t).fields[path[k].i].tagKey = DefaultRedactTag
        /\ TypeOf(path[k].t).fields[path[k].i].tagVal = MASK

\* C7: MASK propagates.  During Redact, every scalar and every
\* pointer-identity text written for a value reached through a field tagged
\* MASK (at any depth, through pointers, interfaces, untagged fields, slices,
\* arrays and maps) is what the masking writer makes of it; every one written
\* outside such a subtree is written as it is.
MaskPropagates ==
    \A t \in Threads :
        (calls[t].mode = "Redact" /\ calls[t].wrote # <<>>) =>
            IF OnMaskedPath(calls[t].wrote[1].path)
            THEN calls[t].wrote[1].written =
                    Write(NewMaskWriter(TRUE, [opts.redact EXCEPT !.active = TRUE]),
                          calls[t].wrote[1].p)
            ELSE calls[t].wrote[1].written = calls[t].wrote[1].p

\* an int two fields below a MASK tag was written masked
MaskPropagatesSeen ==
    /\ calls[1].mode = "Redact" /\ calls[1].wrote # <<>>
    /\ Len(calls[1].wrote[1].path) >= 2
    /\ OnMaskedPath(<<calls[1].wrote[1].path[1]>>)
    /\ calls[1].wrote[1].kind = "int"
    /\ calls[1].wrote[1].written # calls[1].wrote[1].p

\* the call remembered in prev and goroutine t's finished call were made with
\* the same mode on the values a and b, MapKeys returning the same orders
Comparable(t, mode, a, b) ==
    /\ prev # <<>>
    /\ calls[t].pc = "done"
    /\ prev[1].mode = mode /\ calls[t].mode = mode
    /\ prev[1].root = a /\ calls[t].root = b

SequentialCalls ==
    /\ Running(calls[1]) => (opts.redact.active <=> calls[1].mode = "Redact")
    /\ calls[1].mode = "Render" =>
          /\ calls[1].redacted = 0
          /\ calls[1].wrote # <<>> => calls[1].wrote[1].written = calls[1].wrote[1].p
    /\ (calls[1].pc = "done" /\ calls[1].mode = "Render" /\ calls[1].root = "vSec1") =>
          calls[1].out =
            "render.Sec{Pub:42, Priv:(*render.Inner){X:123456, Y:\"randomString\"}, Rep:\"foo\"}"
    /\ (calls[1].pc = "done" /\ calls[1].mode = "Redact" /\ calls[1].root = "vRP") =>
          calls[1].out = "render.RP{Name:<redacted>, I:<redacted>, N:42}"
    /\ \A v \in RootsSeq, mode \in {"Render", "Redact"} :
          (Comparable(1, mode, v, v) /\ prev[1].orders = calls[1].orders) =>
              calls[1].out = prev[1].out

\* a Render of the tagged struct, made after a Redact, returned like the
\* Render remembered from before
SequentialCallsSeen ==
    /\ Comparable(1, "Render", "vSec1", "vSec1")
    /\ calls[1].out =
         "render.Sec{Pub:42, Priv:(*render.Inner){X:123456, Y:\"randomString\"}, Rep:\"foo\"}"

\* field f is hidden by Redact: its value is not rendered
Hidden(f) == f.tagKey = DefaultRedactTag /\ f.tagVal \in {REMOVE, REPLACE}

RECURSIVE Alike(_, _, _)
\* values a and b differ at most in the values of fields tagged REMOVE or
\* REPLACE (n bounds the depth of the comparison)
Alike(a, b, n) ==
    IF n = 0 \/ a = Invalid \/ b = Invalid THEN a = b
    ELSE /\ heap[a].t = heap[b].t
         /\ heap[a].isNil = heap[b].isNil
         /\ CASE KindOf(a) = "struct" ->
                    \A i \in 1..Len(TypeOf(heap[a].t).fields) :
                        \/ Hidden(TypeOf(heap[a].t).fields[i])
                        \/ Alike(heap[a].elems[i], heap[b].elems[i], n - 1)
              [] KindOf(a) \in {"slice", "array"} ->
                    /\ Len(heap[a].elems) = Len(heap[b].elems)
                    /\ \A i \in 1..Len(heap[a].elems) :
                          Alike(heap[a].elems[i], heap[b].elems[i], n - 1)
              [] KindOf(a) = "map" ->
                    /\ Len(heap[a].keys) = Len(heap[b].keys)
                    /\ \E f \in NativeOrders(Len(heap[a].keys)) :
                          \A i \in 1..Len(heap[a].keys) :
                              /\ Alike(heap[a].keys[i], heap[b].keys[f[i]], n - 1)
                              /\ Alike(heap[a].vals[i], heap[b].vals[f[i]], n - 1)
              [] KindOf(a) \in {"ptr", "interface"} ->
                    Alike(heap[a].target, heap[b].target, n - 1)
              [] OTHER ->
                    /\ heap[a].n = heap[b].n /\ heap[a].s = heap[b].s
                    /\ heap[a].b = heap[b].b /\ heap[a].addr = heap[b].addr

\* C10: Redact hides the values of REMOVE and REPLACE fields.  Two Redact
\* calls on values that differ only in the values of such fields return the
\* same text (MapKeys returning the keys in the same orders).
RedactedValuesHidden ==
    \A a, b \in RootsSeq \ {"pP"} :
        (Comparable(1, "Redact", a, b) /\ prev[1].orders = calls[1].orders
           /\ Alike(a, b, MaxDepth)) =>
            calls[1].out = prev[1].out

\* C5: concurrent calls.  A call that returns on a Marshaller another
\* goroutine is calling too returns the text the same call returned when it
\* ran alone.
ConcurrentCalls ==
    \A t \in Threads, v \in RootsConc, mode \in {"Render", "Redact"} :
        Comparable(t, mode, v, v) => calls[t].out = prev[1].out

\* the struct loop of goroutine t stands at a field tagged REPLACE during a
\* Redact
AtReplaceField(t) ==
    /\ AtOp(t, "field")
    /\ calls[t].mode = "Redact"
    /\ FieldOf(Head1(t)).tagKey = opts.redact.tag
    /\ FieldOf(Head1(t)).tagVal = REPLACE

\* the name of the field and ':' unless the field is anonymous, then '<' +
\* replacement placeholder + '>'
Replaced(it) ==
    (IF AnonOf(it) THEN "" ELSE FieldOf(it).name \o ":")
        \o "<" \o opts.redact.replacementPlaceholder \o ">"

\* C11: REPLACE.  During Redact the struct loop writes a field tagged REPLACE
\* (after the separator, if one is written) as its name and ':', left out
\* for an anonymous field, and '<' + replacement placeholder + '>', and
\* leaves no work for the field's value, whatever the value is (a string, an
\* interface, a nil pointer, a pointer back to the struct).
ReplaceWritesPlaceholder ==
    [][\A t \in Threads :
          (AtReplaceField(t) /\ calls'[t].agenda # calls[t].agenda) =>
              \E sep \in {"", ", "} :
                  /\ calls'[t].out = After(calls[t], sep \o Replaced(Head1(t)), <<>>).out
                  /\ calls'[t].agenda = After(calls[t], sep \o Replaced(Head1(t)), <<>>).agenda]_vars

\* Redact replaced the pointer back to the struct and the nil pointer
ReplaceWritesPlaceholderSeen ==
    /\ calls[1].pc = "done" /\ calls[1].mode = "Redact" /\ calls[1].root = "pRR"
    /\ opts.redact.replacementPlaceholder = "xxxx"
    /\ calls[1].out = "(*render.RR){Self:<xxxx>, Nil:<xxxx>, N:42}"

\* every field of struct type ty is tagged REMOVE
AllRemoved(ty) == \A i \in 1..Len(ty.fields) : Removed(ty.fields[i])

\* C12: a struct all of whose fields are tagged REMOVE.  Redact writes it as
\* its type and "{}", and as "{}" alone where the type is implicit (the
\* elements of a slice of an unnamed struct type).
AllRemovedIsEmpty ==
    \A t \in Threads :
        (calls[t].pc = "done" /\ calls[t].mode = "Redact") =>
            /\ (KindOf(calls[t].root) = "struct" /\ AllRemoved(TypeOf(heap[calls[t].root].t))) =>
                    calls[t].out = TypeOf(heap[calls[t].root].t).str \o "{}"
            /\ calls[t].root = "slAnonRem" =>
                    calls[t].out = "[]struct { a int \"redact:\\\"REMOVE\\\"\" }{{}, {}}"

\* Redact of the slice of all-removed structs returned
AllRemovedIsEmptySeen ==
    /\ calls[1].pc = "done" /\ calls[1].mode = "Redact" /\ calls[1].root = "slAnonRem"
    /\ calls[1].out = "[]struct { a int \"redact:\\\"REMOVE\\\"\" }{{}, {}}"

-----------------------------------------------------------------------------
(* Type formatters *)

\* the options o with no formatter registered for the type called name
Unregistered(o, name) ==
    [o EXCEPT !.render.typeFormatters = [n \in DOMAIN @ \ {name} |-> @[n]]]

\* the call of render t is about to make is on a value of a type with a
\* registered formatter
MeetsFormatter(t) ==
    /\ AtOp(t, "render")
    /\ Head1(t).depth <= MaxDepth
    /\ KindOf(Head1(t).v) # "invalid"
    /\ TypeOf(heap[Head1(t).v].t).str \in DOMAIN opts.render.typeFormatters

\* the formatter t's next call of render meets is called and returns
FormatterReturns(t) ==
    /\ getInterface(Head1(t).v, Head1(t).path).ok
    /\ Returns(opts.render.typeFormatters[TypeOf(heap[Head1(t).v].t).str],
               getInterface(Head1(t).v, Head1(t).path))

\* the formatter t's next call of render meets is called and panics
FormatterPanics(t) ==
    /\ getInterface(Head1(t).v, Head1(t).path).ok
    /\ ~Returns(opts.render.typeFormatters[TypeOf(heap[Head1(t).v].t).str],
                getInterface(Head1(t).v, Head1(t).path))

\* every formatter registered when call c was made always panics
OnlyPanicking(c) ==
    /\ c.fmts # NoFormatters
    /\ \A n \in DOMAIN c.fmts : c.fmts[n] = "panics"

\* no panic leaves a call, and a call made with panicking formatters only
\* returns what the same call returned before any formatter was registered
SameAsUnregistered ==
    \A t \in Threads :
        /\ calls[t].pc # "panic"
        /\ (calls[t].pc = "done" /\ OnlyPanicking(calls[t]) /\ prev # <<>>
             /\ prev[1].mode = calls[t].mode /\ prev[1].root = calls[t].root)
            => (prev[1].pc = "done" /\ prev[1].out = calls[t].out)

\* a call of render that meets a panicking formatter does what it does when
\* no formatter is registered for the type
FallsBack ==
    \A t \in Threads :
        (MeetsFormatter(t) /\ FormatterPanics(t)) =>
            /\ calls'[t].pc # "panic"
            /\ calls'[t] = Rendered(calls[t],
                                    render(Head1(t),
                                           Unregistered(opts, TypeOf(heap[Head1(t).v].t).str),
                                           <<>>),
                                    <<>>)

\* C13: when the formatter registered for a value's type panics, the panic
\* does not reach the caller of Render or Redact, nothing of the attempt is in
\* the output, and the value and the whole output are rendered as on a
\* Marshaller with no formatter registered for that type.
FormatterFailureIsolation == []SameAsUnregistered /\ [][FallsBack]_vars

\* Redact of the FM value returned with panicking formatters registered for
\* render.T and string, as it did with none
FormatterFailureIsolationSeen ==
    /\ calls[1].pc = "done"
    /\ calls[1].mode = "Redact"
    /\ calls[1].root = "vFM"
    /\ OnlyPanicking(calls[1])
    /\ prev # <<>> /\ prev[1].mode = "Redact" /\ prev[1].root = "vFM"
    /\ calls[1].out = "render.FM{V:render.T{X:##}, P:(*render.T){X:42}, L:[]int{####56, #}, "
                      \o "in:render.T{X:42}, sl:[]int{123456, 7}, pin:(*render.T){X:42}, "
                      \o "S:\"####o\"}"

\* what a returning formatter makes render write for the value of item it
Formatted(it, o) ==
    (IF ~it.implicit THEN writeType(it.ptrs, heap[it.v].t) ELSE "")
    \o "(" \o FormatterText(o.render.typeFormatters[TypeOf(heap[it.v].t).str], it.v) \o ")"

\* C14: when a value, at the root or nested, has a type whose name is
\* registered and the formatter returns, the call of render writes the type
\* prefix (unless implicit), "(", the returned text and ")", and leaves no
\* call of render on the value's content.
FormatterSuccess ==
    [][\A t \in Threads :
          (MeetsFormatter(t) /\ FormatterReturns(t)) =>
              /\ calls'[t].pc = "run"
              /\ calls'[t].out = Settle([calls[t] EXCEPT
                                            !.out = @ \o Formatted(Head1(t), opts),
                                            !.agenda = Tail(@)]).out
              /\ calls'[t].agenda = Settle([calls[t] EXCEPT !.agenda = Tail(@)]).agenda]_vars

\* Render of the FM value with formatters registered for render.T,
\* *render.T and []int: the values they are handed are written as
\* prefix(text), at the root of a field, behind a pointer, in an unexported field
FormatterSuccessSeen ==
    /\ calls[1].pc = "done"
    /\ calls[1].mode = "Render"
    /\ calls[1].root = "vFM"
    /\ DOMAIN calls[1].fmts = {"render.T", "*render.T", "[]int"}
    /\ \A n \in DOMAIN calls[1].fmts : calls[1].fmts[n] = "typed"
    /\ calls[1].out = "render.FM{V:render.T(foo#42), P:*render.T(fmt), L:[]int(fmt), "
                      \o "in:render.T(foo#42), sl:[]int{123456, 7}, pin:(*render.T)(foo#42), "
                      \o "S:\"hello\"}"

\* the call c was made with a formatter registered for the type of its root
\* that returns on it
RootFormatted(c) ==
    /\ c.root # Invalid
    /\ TypeOf(heap[c.root].t).str \in DOMAIN c.fmts
    /\ Returns(c.fmts[TypeOf(heap[c.root].t).str], GotOwn)

\* during Redact a value with a returning formatter is written as the
\* formatter made it, whatever masker it is reached with, and no field of it
\* goes through redactField
FormattedAsIs ==
    \A t \in Threads :
        (opts.redact.active /\ MeetsFormatter(t) /\ FormatterReturns(t)) =>
            /\ calls'[t] = After(calls[t], Formatted(Head1(t), opts), <<>>)
            /\ calls'[t].redacted = calls[t].redacted
            /\ calls'[t].wrote = calls[t].wrote

\* Redact returns for a value whose type has a returning formatter the type
\* and the formatter's text
RootFormattedAsIs ==
    \A t \in Threads :
        (calls[t].pc = "done" /\ calls[t].mode = "Redact" /\ RootFormatted(calls[t])) =>
            calls[t].out = TypeOf(heap[calls[t].root].t).str \o "("
                           \o FormatterText(calls[t].fmts[TypeOf(heap[calls[t].root].t).str],
                                            calls[t].root)
                           \o ")"

\* C15: the type formatter takes precedence over the redaction of the
\* value's content: during Redact the text of a returning formatter is
\* written unmasked, inside a MASK subtree too, and the redaction tags of the
\* value's own fields are not applied.
FormatterBeforeRedaction == []RootFormattedAsIs /\ [][FormattedAsIs]_vars

\* Redact of the FM value with the formatters of T, *T and []int: the text
\* made of T's fields, the REMOVE one included, stands unmasked in the MASK
\* field V, and so does the text for the MASK field L
FormatterBeforeRedactionSeen ==
    /\ calls[1].pc = "done"
    /\ calls[1].mode = "Redact"
    /\ calls[1].root = "vFM"
    /\ DOMAIN calls[1].fmts = {"render.T", "*render.T", "[]int"}
    /\ \A n \in DOMAIN calls[1].fmts : calls[1].fmts[n] = "typed"
    /\ calls[1].out = "render.FM{V:render.T(foo#42), P:*render.T(fmt), L:[]int(fmt), "
                      \o "in:render.T(foo#42), sl:[]int{123456, 7}, pin:(*render.T)(foo#42), "
                      \o "S:\"####o\"}"

-----------------------------------------------------------------------------
(* Construction *)

\* the characters of the model's tags that [a-zA-Z0-9_-] holds
ClassChars == {"a", "z", "A", "Z", "0", "9", "_", "-"}

\* the tag matches ^[a-zA-Z0-9_-]+$
WellFormed(tag) == tag # <<>> /\ \A i \in 1..Len(tag) : tag[i] \in ClassChars

\* the options given that are not nil
GivenOptions == SelectSeq(made.given, LAMBDA opt : opt # NilOption)

\* the annotation key the Marshaller built is to use
KeyAsked == IF GivenOptions = <<>> THEN DefaultRedactTag ELSE Cat(GivenOptions[1].tag)

\* the fields of value v tagged under key
TaggedUnder(v, key) ==
    {i \in 1..Len(TypeOf(heap[v].t).fields) : TypeOf(heap[v].t).fields[i].tagKey = key}

\* C16: NewMarshaller(WithRedactTag(t)) returns an error and no Marshaller
\* when t does not match ^[a-zA-Z0-9_-]+$ (the empty tag included) and a
\* Marshaller that uses t as the annotation key otherwise; nil options are
\* skipped; no call of Render or Redact on the Marshaller built fails.
TagValidation ==
    made # NotMade =>
        /\ made.err <=> (GivenOptions # <<>> /\ ~WellFormed(GivenOptions[1].tag))
        /\ made.err => (made.m = Nil /\ calls[1] = NoCall)
        /\ ~made.err =>
              /\ made.m # Nil
              /\ made.m[1].tag = KeyAsked
              /\ opts.redact.tag = KeyAsked
              /\ calls[1].pc # "panic"
              /\ (calls[1].pc = "done" /\ calls[1].mode = "Redact"
                  /\ calls[1].root = "vTG")
                 => calls[1].redacted = Cardinality(TaggedUnder("vTG", KeyAsked))

\* a Marshaller built with the tag "a-" between two nil options redacted
\* the fields tagged under a- and no other
TagValidationSeen ==
    /\ made.given = <<NilOption, RedactTagOption(<<"a", "-">>), NilOption>>
    /\ ~made.err
    /\ calls[1].pc = "done"
    /\ calls[1].mode = "Redact"
    /\ calls[1].root = "vTG"
    /\ calls[1].out = "render.TG{B:\"bar\", C:42, M:####56}"

-----------------------------------------------------------------------------
(* Map keys *)

\* goroutine t is about to render a non-nil map whose keys are of kind in kinds
AtMap(t, kinds) ==
    /\ AtOp(t, "render")
    /\ Head1(t).depth <= MaxDepth
    /\ KindOf(Head1(t).v) = "map"
    /\ ~heap[Head1(t).v].isNil
    /\ TypeOf(TypeOf(heap[Head1(t).v].t).key).kind \in kinds

\* the i-th key the map case left to be rendered: the pairs are on the agenda
\* as key, ":", value, ", "
KeyWritten(t, i) == calls'[t].agenda[4 * (i - 1) + 1].v

\* the natural order of two scalar keys of one kind
KeyLess(a, b) ==
    LET x == heap[a]
        y == heap[b]
        kind == TypeOf(x.t).kind
    IN  CASE kind = "string" -> StringLess(x.s, y.s)
          [] kind = "bool" -> ~x.b /\ y.b
          [] kind = "float" -> ~x.nan /\ ~y.nan /\ x.n < y.n
          [] kind = "complex" -> x.n < y.n \/ (x.n = y.n /\ x.im < y.im)
          [] OTHER -> x.n < y.n

\* the two keys are ordered one way or the other
Ordered(a, b) == KeyLess(a, b) \/ KeyLess(b, a)

ScalarKinds == {"string", "bool", "int", "uint", "float", "complex"}

\* C17: the pairs of a map with string, bool, signed, unsigned, float or
\* complex keys are written in ascending key order (false before true, numeric
\* order, byte-wise order of strings, real part then imaginary part): no pair
\* is written after a pair with a greater key.
ScalarKeyOrder ==
    [][\A t \in Threads :
          AtMap(t, ScalarKinds) =>
              \A i, j \in 1..Len(heap[Head1(t).v].keys) :
                  i < j => ~KeyLess(KeyWritten(t, j), KeyWritten(t, i))]_vars

\* struct key a is before struct key b field by field: the first field in
\* which they differ is less in a
LexLess(a, b) ==
    \E f \in 1..Len(heap[a].elems) :
        /\ \A g \in 1..(f - 1) : heap[heap[a].elems[g]] = heap[heap[b].elems[g]]
        /\ KeyLess(heap[a].elems[f], heap[b].elems[f])

\* the struct keys of the model whose fields all have a comparator
StructKeys == {"k1a", "k1b", "k2a", "k2b"}

\* the struct comparator gives 0 for keys equal in every field, and the map
\* case leaves struct keys to be rendered in lexicographic order
KeysEqualInEveryField ==
    \A a, b \in StructKeys :
        (\A g \in 1..Len(heap[a].elems) : heap[heap[a].elems[g]] = heap[heap[b].elems[g]])
            <=> callCmp(cmpForType(heap[a].t), a, b) = Returned(0)

FirstDifferenceDecides ==
    \A t \in Threads :
        (AtMap(t, {"struct"}) /\ calls'[t].pc # "panic") =>
            \A i, j \in 1..Len(heap[Head1(t).v].keys) :
                i < j => LexLess(KeyWritten(t, i), KeyWritten(t, j))

\* C18: struct map keys are ordered lexicographically: two keys are compared
\* field by field in declaration order, the first field that differs decides,
\* and keys equal in every field compare equal.
StructKeyOrder == []KeysEqualInEveryField /\ [][FirstDifferenceDecides]_vars

\* the map with the keys K{2, "a"}, K{1, "b"}, K{1, "a"}, returned by MapKeys
\* in that order, was rendered with the keys in the order 1a, 1b, 2a
StructKeyOrderSeen ==
    /\ calls[1].pc = "done"
    /\ calls[1].mode = "Render"
    /\ calls[1].root = "mapK3"
    /\ calls[1].orders = << <<1, 2, 3>> >>
    /\ calls[1].out = "map[render.K]int{render.K{Secret:1, Id:\"a\"}:1, "
                      \o "render.K{Secret:1, Id:\"b\"}:2, render.K{Secret:2, Id:\"a\"}:3}"

AllKinds == {TypeOf(t).kind : t \in DOMAIN types}

\* the order MapKeys returned the keys in at the step t takes
NativeKeys(t) ==
    IF Len(heap[Head1(t).v].keys) > 1
    THEN MapKeys(Head1(t).v, calls'[t].orders[Len(calls'[t].orders)])
    ELSE heap[Head1(t).v].keys

\* C19: rendering a non-nil map never fails, whatever the key type (array
\* keys, unsafe-pointer keys, struct keys with such fields) and the number of
\* entries: the call of render does not panic, and when the key type has no
\* comparator the keys are left in their native order.
MapRenderingCompletes ==
    [][\A t \in Threads :
          AtMap(t, AllKinds) =>
              /\ calls'[t].pc # "panic"
              /\ cmpForType(TypeOf(heap[Head1(t).v].t).key).isNil =>
                     \A i \in 1..Len(heap[Head1(t).v].keys) :
                         KeyWritten(t, i) = NativeKeys(t)[i]]_vars

-----------------------------------------------------------------------------
(* Shared references *)

\* the values held by value v: fields, elements, keys, values, the target
Children(v) ==
    IF v = Invalid THEN {}
    ELSE ({heap[v].elems[i] : i \in DOMAIN heap[v].elems}
          \cup {heap[v].keys[i] : i \in DOMAIN heap[v].keys}
          \cup {heap[v].vals[i] : i \in DOMAIN heap[v].vals}
          \cup {heap[v].target}) \ {Invalid}

RECURSIVE Below(_, _)
\* the values reached from v in n steps or fewer
Below(v, n) ==
    IF n = 0 THEN {}
    ELSE Children(v) \cup UNION {Below(w, n - 1) : w \in Children(v)}

\* no value at or below v is below itself: no value has itself as an ancestor
Acyclic(v) == \A w \in {v} \cup Below(v, MaxDepth) : w \notin Below(w, MaxDepth)

AcyclicRoots == {v \in RootsShared : Acyclic(v)}

\* the step t takes writes the recursion placeholder for the value it is at
WritesPlaceholder(t) ==
    /\ AtOp(t, "render")
    /\ Head1(t).depth <= MaxDepth
    /\ KindOf(Head1(t).v) # "invalid"
    /\ calls'[t] = After(calls[t], Placeholder(Head1(t)), <<>>)

\* the slice that holds the self-referential map twice is rendered with the
\* map expanded twice
SiblingsExpanded ==
    \A t \in Threads :
        (calls[t].pc = "done" /\ calls[t].root = "slMM" /\ calls[t].mode = "Render") =>
            calls[t].out = "[]map[string]interface{}{"
                           \o "{\"foo\":<recursive(map[string]interface{})>}, "
                           \o "{\"foo\":<recursive(map[string]interface{})>}}"

\* C20: the cycle chain is per path: a pointer target, slice or map reached
\* from several sibling positions, and not an ancestor of them, is expanded
\* at each occurrence.  In a value where nothing is its own ancestor no
\* placeholder is written, and the slice of TestRenderRecursiveMap, which
\* holds one self-referential map twice, has the map expanded twice.
ChainIsPerPath ==
    /\ []SiblingsExpanded
    /\ [][\A t \in Threads : calls[t].root \in AcyclicRoots => ~WritesPlaceholder(t)]_vars

-----------------------------------------------------------------------------
(* Type prefixes *)

\* goroutine t is about to render a value of one of the kinds
AtKind(t, kinds) ==
    /\ AtOp(t, "render")
    /\ Head1(t).depth <= MaxDepth
    /\ KindOf(Head1(t).v) \in kinds

\* the step t takes is a call of render that writes text and calls nothing
Writes(t, text) ==
    calls'[t] = After([calls[t] EXCEPT !.wrote = calls'[t].wrote], text, <<>>)

\* the step t takes is a call of render that writes text and leaves calls
\* and literals to go on with
WritesAndCalls(t, text) ==
    \E n \in 0..Len(calls'[t].agenda) :
        calls'[t] = After([calls[t] EXCEPT !.orders = calls'[t].orders], text,
                          SubSeq(calls'[t].agenda, 1, n))

\* the text of the value the step wrote: the digits or the word, or the
\* string in quotes, with the mask characters the masker put
ValueText(t) ==
    IF calls'[t].wrote[1].kind = "string"
    THEN Cat(Quote(calls'[t].wrote[1].written))
    ELSE Cat(calls'[t].wrote[1].written)

\* the type is the built-in type of its kind, not a type named after one
BareBuiltin(vt) == TypeOf(vt).str \in builtinTypeSet

\* the prefix of a value of scalar type vt reached through n pointers
ScalarPrefix(n, vt) ==
    IF n = 0 THEN TypeOf(vt).str
    ELSE "(" \o Cat(Repeat(<<"*">>, n)) \o TypeOf(vt).str \o ")"

\* the scalar is written with its prefix and parentheses, or alone
ScalarWritten(t, alone) ==
    Writes(t, IF alone THEN ValueText(t)
              ELSE ScalarPrefix(Head1(t).ptrs, heap[Head1(t).v].t)
                   \o "(" \o ValueText(t) \o ")")

\* the scalar type-prefix rule as the specification words it: a scalar of a
\* bare built-in type at pointer depth 0 is written alone, every other one
\* with its prefix
ScalarPrefixRule ==
    [][\A t \in Threads :
          AtKind(t, ScalarKinds) =>
              ScalarWritten(t, BareBuiltin(heap[Head1(t).v].t) /\ Head1(t).ptrs = 0)]_vars

\* C21: the scalar type-prefix rule.  A bool, number or string of the bare
\* built-in type of its kind at pointer depth 0 is written as the value alone,
\* and so is every scalar rendered with implicitType = true (a map key of a
\* type strings, ints, uints or floats convert to, named or not); a scalar of
\* a named type rendered with implicitType = false, and a scalar reached
\* through n >= 1 pointers, is written as prefix + "(" + value + ")" with
\* exactly n "*" in the prefix.
ScalarPrefixUnlessImplicit ==
    [][\A t \in Threads :
          AtKind(t, ScalarKinds) =>
              ScalarWritten(t, \/ BareBuiltin(heap[Head1(t).v].t) /\ Head1(t).ptrs = 0
                               \/ Head1(t).implicit)]_vars

\* the map with keys of a named int type was rendered: its keys alone, its
\* string values alone
ScalarPrefixUnlessImplicitSeen ==
    /\ calls[1].pc = "done"
    /\ calls[1].root = "mapMyInt"
    /\ calls[1].out = "map[render.myIntType]string{12:\"a\", 42:\"b\"}"

\* the value t is about to render is nil
AtNil(t) == heap[Head1(t).v].isNil

\* the nil-pointer rule as the specification words it: the prefix is left out
\* when the pointer is rendered with implicitType = true
NilPointerRule ==
    [][\A t \in Threads :
          /\ (AtKind(t, {"ptr"}) /\ AtNil(t)) =>
                Writes(t, (IF Head1(t).implicit THEN ""
                           ELSE writeType(Head1(t).ptrs + 1, heap[Head1(t).v].t))
                          \o "(nil)")
          /\ (AtKind(t, {"interface"}) /\ AtNil(t)) =>
                Writes(t, writeType(Head1(t).ptrs, heap[Head1(t).v].t) \o "(nil)")]_vars

\* the prefix of a nil pointer of type vt reached through n pointers: the
\* type in parentheses, n more "*" in front of it
NilPrefix(n, vt) == "(" \o Cat(Repeat(<<"*">>, n)) \o TypeOf(vt).str \o ")"

\* C22: a nil pointer is written as its type prefix followed by "(nil)",
\* whether it is rendered with implicitType = true (as an element or field of
\* an unnamed composite type) or not; an empty interface slot is written as
\* its type prefix followed by "(nil)".
NilPointerTyped ==
    [][\A t \in Threads :
          /\ (AtKind(t, {"ptr"}) /\ AtNil(t)) =>
                Writes(t, NilPrefix(Head1(t).ptrs, heap[Head1(t).v].t) \o "(nil)")
          /\ (AtKind(t, {"interface"}) /\ AtNil(t)) =>
                Writes(t, "interface{}(nil)")]_vars

\* the slice of a pointer to 1 and a nil pointer was rendered, both elements
\* with their prefix
NilPointerTypedSeen ==
    /\ calls[1].pc = "done"
    /\ calls[1].root = "slPtrs"
    /\ calls[1].out = "[]*int{(*int)(1), (*int)(nil)}"

-----------------------------------------------------------------------------
(* Members of unnamed composite types *)

\* the type has no name
Unnamed(vt) == TypeOf(vt).name = ""

\* the type is unnamed or a built-in, and is not an interface
Plain(vt) ==
    /\ Unnamed(vt) \/ TypeOf(vt).name \in builtinTypeSet
    /\ TypeOf(vt).kind # "interface"

\* the member of a composite of type vt, of type mt, is anonymous
Anonymous(vt, mt) == Unnamed(vt) /\ Plain(mt)

\* the braces a struct, slice, array or map opens with: closed at once when
\* it has no member
Braces(v) ==
    IF Len(heap[v].elems) + Len(heap[v].keys) = 0 THEN "{}" ELSE "{"

\* the struct loop writes the name of a field unless the field is anonymous,
\* and renders the field as anonymous or not
FieldNamed(t) ==
    AtOp(t, "fieldSep") =>
        LET it == Head1(t)
            anon == Anonymous(heap[it.v].t, FieldOf(it).type)
        IN  calls'[t] =
                After(calls[t],
                      Separator(it, opts, opts.redact.active)
                      \o (IF anon THEN "" ELSE FieldOf(it).name \o ":"),
                      <<[FieldValue(it, it.masker) EXCEPT !.implicit = anon]>>)

\* the elements of a slice or array, and the values of a map, are rendered
\* as anonymous or not
MembersRendered(t) ==
    LET it == Head1(t)
        vt == heap[it.v].t
    IN  /\ (AtKind(t, {"slice", "array"}) /\ ~AtNil(t) /\ ~WritesPlaceholder(t)) =>
              \A i \in 1..Len(heap[it.v].elems) :
                  /\ calls'[t].agenda[2 * i - 1].v = heap[it.v].elems[i]
                  /\ calls'[t].agenda[2 * i - 1].implicit = Anonymous(vt, TypeOf(vt).elem)
        /\ (AtKind(t, {"map"}) /\ ~AtNil(t) /\ ~WritesPlaceholder(t)) =>
              \A i \in 1..Len(heap[it.v].keys) :
                  /\ calls'[t].agenda[4 * i - 1].v
                        \in {heap[it.v].vals[j] : j \in DOMAIN heap[it.v].vals}
                  /\ calls'[t].agenda[4 * i - 1].implicit = Anonymous(vt, TypeOf(vt).elem)

\* a value rendered as anonymous is written without its type prefix, unless
\* it is of one of the kinds `typed`: a struct, slice, array or map as its
\* braces, a nil slice as nil, a scalar as the value alone; a pointer of a
\* kind in `typed` with its prefix, and its target with the prefix of the
\* pointer
Unprefixed(t, typed) ==
    LET it == Head1(t)
        v == heap[it.v]
        kind == KindOf(it.v)
    IN  (AtKind(t, AllKinds) /\ it.implicit /\ ~WritesPlaceholder(t)) =>
            CASE kind \in {"struct", "array"} -> WritesAndCalls(t, Braces(it.v))
              [] kind = "slice" ->
                    IF v.isNil THEN Writes(t, "nil") ELSE WritesAndCalls(t, Braces(it.v))
              [] kind = "map" ->
                    IF v.isNil THEN Writes(t, "(nil)") ELSE WritesAndCalls(t, Braces(it.v))
              [] kind = "ptr" ->
                    IF v.isNil
                    THEN Writes(t, (IF kind \in typed THEN writeType(1, v.t) ELSE "") \o "(nil)")
                    ELSE /\ calls'[t].out = calls[t].out
                         /\ Head(calls'[t].agenda).op = "render"
                         /\ Head(calls'[t].agenda).v = v.target
                         /\ Head(calls'[t].agenda).implicit = (kind \notin typed)
                         /\ Head(calls'[t].agenda).ptrs = IF kind \in typed THEN 1 ELSE 0
              [] kind \in {"chan", "func", "unsafeptr"} ->
                    Writes(t, (IF kind \in typed THEN writeType(0, v.t) ELSE "")
                              \o "(" \o ValueText(t) \o ")")
              [] OTHER -> Writes(t, ValueText(t))

\* the anonymous-field rule as the specification words it: no anonymous member
\* is written with a type prefix
AnonymousFieldRule ==
    [][\A t \in Threads : FieldNamed(t) /\ MembersRendered(t) /\ Unprefixed(t, {})]_vars

\* the kinds that are written with their type whatever implicit is
AlwaysTyped == {"ptr", "chan", "func", "unsafeptr"}

\* C23: the anonymous-field rule.  In a struct, slice, array or map whose own
\* type has no name, a field, element or value whose type is unnamed or a
\* built-in, and is not an interface, is written without field name, and
\* without type prefix unless it is a pointer, channel, function or unsafe
\* pointer, which keep theirs; in a named struct every field is written as
\* name ":" value.
AnonymousFieldRuleButTyped ==
    [][\A t \in Threads :
          FieldNamed(t) /\ MembersRendered(t) /\ Unprefixed(t, AlwaysTyped)]_vars

\* the unnamed struct with a nil pointer, a nil and an empty slice, an empty
\* interface, a named int and a channel was rendered
AnonymousFieldRuleButTypedSeen ==
    /\ calls[1].pc = "done"
    /\ calls[1].mode = "Render"
    /\ calls[1].root = "vAnonQ"
    /\ calls[1].out =
          "struct { p *int; l []int; e []int; i interface {}; n render.myIntType; c chan int }"
          \o "{(*int)(nil), nil, {}, i:interface{}(nil), n:render.myIntType(12), "
          \o "(chan int)(" \o Cat(FormatPointer(256)) \o ")}"

-----------------------------------------------------------------------------
(* Nil and empty slices *)

\* C24: the nil slice rule.  A nil slice rendered with implicitType = false
\* is written as its type prefix followed by "(nil)", and with implicitType =
\* true as the bare text nil; a non-nil empty slice is written as its type
\* prefix (unless implicit) followed by "{}".
NilSliceRule ==
    [][\A t \in Threads :
          (AtKind(t, {"slice"}) /\ ~WritesPlaceholder(t)) =>
              LET it == Head1(t)
                  prefix == ScalarPrefix(it.ptrs, heap[it.v].t)
              IN  /\ (AtNil(t) /\ ~it.implicit) => Writes(t, prefix \o "(nil)")
                  /\ (AtNil(t) /\ it.implicit) => Writes(t, "nil")
                  /\ (~AtNil(t) /\ heap[it.v].elems = <<>>) =>
                        Writes(t, (IF it.implicit THEN "" ELSE prefix) \o "{}")]_vars

\* Redact has rendered the unnamed struct that holds a nil and an empty
\* slice: nil and {}
NilSliceRuleSeen ==
    /\ calls[1].pc = "done"
    /\ calls[1].mode = "Redact"
    /\ calls[1].root = "vAnonQ"
    /\ calls[1].out =
          "struct { p *int; l []int; e []int; i interface {}; n render.myIntType; c chan int }"
          \o "{(*int)(nil), nil, {}, i:interface{}(nil), n:render.myIntType(12), "
          \o "(chan int)(" \o Cat(FormatPointer(256)) \o ")}"

-----------------------------------------------------------------------------
(* Formatter registrations *)

\* C25: formatter registrations are private to the Marshaller they were given
\* to: after NewMarshaller(WithTypeFormatter(T, f)), whether it returned a
\* Marshaller or the error of a later option, the package-level Render and
\* Redact find no formatter registered and return for a value what they
\* returned for it before the call.
RegistrationsArePrivate ==
    [](\A t \in Threads :
          /\ calls[t].fmts = NoFormatters
          /\ (calls[t].pc = "done" /\ prev # <<>>
               /\ prev[1].mode = calls[t].mode /\ prev[1].root = calls[t].root)
              => prev[1].out = calls[t].out)

-----------------------------------------------------------------------------
(* First occurrences *)

\* the value can be met again below itself
Revisitable(v) == v \in Below(v, MaxDepth)

\* C26: a recursion placeholder is written for a value only when descending
\* into it would revisit a value that is already being expanded on the current
\* path, which only a value that is below itself can be; the first occurrence
\* of a value on a path is expanded, also when the value starts at the address
\* of an enclosing open value (a pointer to a struct's first array field met
\* inside that struct).
PlaceholderOnlyOnRevisit ==
    [][\A t \in Threads :
          (AtKind(t, {"ptr", "slice", "map"}) /\ Identity(Head1(t).v) # 0
             /\ WritesPlaceholder(t)) =>
              /\ Head1(t).depth > 1
              /\ Revisitable(Head1(t).v)]_vars

-----------------------------------------------------------------------------
(* Tag values other than REMOVE, REPLACE and MASK *)

\* the field of item it carries, under the configured key, a value that is
\* none of REMOVE, REPLACE and MASK
UnknownTag(it) ==
    LET l == Lookup(FieldOf(it), opts.redact.tag)
    IN  l.ok /\ l.tag \notin {REMOVE, REPLACE, MASK}

\* C27: in a Redact every surviving field is written once.  When the struct
\* loop is left to write a field itself (redactField returned false), nothing
\* of the field, neither separator nor name, has been written yet; and a field
\* whose tag value is none of REMOVE, REPLACE and MASK is handled like an
\* untagged one: redactField writes nothing and the loop writes the field.
FieldWrittenOnce ==
    [][\A t \in Threads :
          (AtOp(t, "field") /\ opts.redact.active) =>
              LET it == Head1(t)
              IN  /\ (calls'[t].agenda # <<>> /\ Head(calls'[t].agenda).op = "fieldSep") =>
                        calls'[t].out = calls[t].out
                  /\ (UnknownTag(it) /\ ~it.masker.masked) =>
                        calls'[t] = After(calls[t], "",
                                          <<FieldItem("fieldSep", it, it.s, it.i)>>)]_vars

-----------------------------------------------------------------------------
(* Redact of a value without annotations *)

\* no struct at or below v has a field annotated under key
Untagged(v, key) == \A u \in {v} \cup Below(v, MaxDepth) : TaggedUnder(u, key) = {}

\* the call remembered in prev and the call that just returned are a Render
\* and a Render or Redact of the other mode on v, MapKeys returning the same
\* orders
BothModes(v) ==
    /\ prev # <<>>
    /\ calls[1].pc = "done"
    /\ prev[1].root = v /\ calls[1].root = v
    /\ prev[1].mode # calls[1].mode
    /\ prev[1].orders = calls[1].orders

\* C28: for every value in whose graph no struct field carries the configured
\* redact tag, Redact returns exactly the text Render returns.
NothingToRedact ==
    \A v \in RootsPlain :
        (Untagged(v, opts.redact.tag) /\ BothModes(v)) => calls[1].out = prev[1].out

\* a Redact returned after a Render, under the key z, of the struct TG whose
\* fields are annotated under other keys, and of the pointer that holds itself
NothingToRedactSeen ==
    /\ opts.redact.tag = "z"
    /\ calls[1].mode = "Redact"
    /\ BothModes("vTG") \/ BothModes("pSelf")
    /\ Untagged(calls[1].root, "z")
    /\ calls[1].out # ""

-----------------------------------------------------------------------------
(* The chain of visited identities *)

\* the identities on chain s
OnChain(s) == {s[i] : i \in 1..Len(s)}

\* the calls of render and the loop steps waiting on goroutine t's agenda
Waiting(t) ==
    {calls[t].agenda[k] : k \in {j \in 1..Len(calls[t].agenda) : calls[t].agenda[j].op # "write"}}

\* the chain the calls made from within item it are given: the chain of it,
\* extended by the identity of it's value when render tracks the value
ChainBelow(it) ==
    IF it.op = "render" /\ Identity(it.v) # 0 THEN <<Identity(it.v)>> \o it.s ELSE it.s

\* no chain holds an identity twice or the identity 0, a chain is no longer
\* than the recursion path, and the call made by Render or Redact itself has
\* the empty chain
ChainState ==
    \A t \in Threads : \A it \in Waiting(t) :
        /\ Cardinality(OnChain(it.s)) = Len(it.s)
        /\ 0 \notin OnChain(it.s)
        /\ Len(it.s) < it.depth
        /\ it.depth = 1 => it.s = <<>>

\* forkFor at the head of t's agenda: nil when the identity is on the chain,
\* otherwise a new node in front of the unchanged chain
ForkAtHead(t) ==
    LET it == Head1(t)
        fs == forkFor(it.s, Identity(it.v))
    IN  (AtOp(t, "render") /\ Identity(it.v) # 0) =>
            IF Identity(it.v) \in OnChain(it.s)
            THEN fs = <<>>
            ELSE fs # <<>> /\ Head(fs) = Identity(it.v) /\ Tail(fs) = it.s

\* a step of goroutine t leaves the waiting items as they are and gives every
\* item it adds the chain of the item it works on, extended by the identity
\* of the value it opens
ChainStep(t) ==
    LET old == calls[t].agenda
        new == calls'[t].agenda
        kept == IF Len(new) < Len(old) - 1 THEN Len(new) ELSE Len(old) - 1
    IN  (calls[t].pc = "run" /\ old # <<>> /\ calls'[t].pc = "run") =>
            /\ \A k \in 1..kept : new[Len(new) - kept + k] = old[Len(old) - kept + k]
            /\ \A k \in 1..(Len(new) - kept) :
                  new[k].op # "write" =>
                      /\ new[k].s = ChainBelow(old[1])
                      /\ old[1].op = "render" =>
                            Identity(old[1].v) \notin OnChain(old[1].s)

\* C29: traversal-chain invariant.  At every point of a render call the chain
\* of visited identities holds no identity twice and holds exactly the tracked
\* values open on the current recursion path (it grows by the identity of a
\* value when the value is opened and is what it was for the items that
\* wait); forkFor returns nil when the identity is on the chain and otherwise
\* a new node whose parent is the unchanged chain; each top-level call starts
\* from the empty chain.
TraversalChain ==
    /\ [](ChainState /\ \A t \in Threads : ForkAtHead(t))
    /\ [][\A t \in Threads :
            /\ ChainStep(t)
            /\ (calls[t].pc = "entered" /\ calls'[t].pc = "run") =>
                  (Len(calls'[t].agenda) = 1 /\ calls'[t].agenda[1].s = <<>>)]_vars

\* a call of render three identities deep, and one that meets an identity of
\* its chain
TraversalChainSeen ==
    /\ AtOp(1, "render")
    /\ Len(Head1(1).s) >= 2
    /\ Identity(Head1(1).v) \in OnChain(Head1(1).s)

-----------------------------------------------------------------------------
(* What a masked subtree is made of *)

\* goroutine t, in a Redact, is at a step on a value of a masked subtree
InMasked(t) ==
    /\ calls[t].pc = "run"
    /\ calls[t].agenda # <<>>
    /\ Head1(t).depth <= MaxDepth
    /\ opts.redact.active
    /\ Head1(t).masker.masked

\* what the masking writer of the Marshaller makes of the bytes p
Masked(p) == Write(NewMaskWriter(TRUE, opts.redact), p)

\* the text fmt makes of the bool or number v
PlainText(v) ==
    CASE KindOf(v) = "bool" -> FormatBool(heap[v].b)
      [] KindOf(v) = "float" -> FormatFloat(heap[v])
      [] KindOf(v) = "complex" -> FormatComplex(heap[v])
      [] OTHER -> FormatInt(heap[v].n)

\* a masked string is the masked raw string between two quotes, a masked bool
\* or number the masked text of the value
MaskedText(v) ==
    IF KindOf(v) = "string"
    THEN Cat(<<"\"">> \o Escape(Masked(heap[v].s)) \o <<"\"">>)
    ELSE Cat(Masked(PlainText(v)))

\* the call with the masker of its head replaced by one that does not mask
UnmaskedHead(c) == [c EXCEPT !.agenda[1].masker.masked = FALSE]

\* the step writes what render writes for the value outside a masked subtree
WritesUnmasked(t) ==
    \E order \in NativeOrders(IF KindOf(Head1(t).v) = "map"
                              THEN Len(heap[Head1(t).v].keys) ELSE 0) :
        calls'[t].out =
            Rendered(UnmaskedHead(calls[t]),
                     render(Head(UnmaskedHead(calls[t]).agenda), opts, order), order).out

\* the steps of a masked subtree: a scalar is written as its masked text, with
\* the prefix and parentheses it has elsewhere; a struct, slice, array, map,
\* pointer, interface or nil value writes its prefix, braces, (nil) and
\* recursion placeholder as it does elsewhere; the loop writes the separator
\* and the name of a field as they are
MaskedSteps(t) ==
    LET it == Head1(t)
    IN  /\ (AtKind(t, ScalarKinds) /\ InMasked(t)) =>
              Writes(t, IF (BareBuiltin(heap[it.v].t) /\ it.ptrs = 0) \/ it.implicit
                        THEN MaskedText(it.v)
                        ELSE ScalarPrefix(it.ptrs, heap[it.v].t)
                             \o "(" \o MaskedText(it.v) \o ")")
        /\ (AtKind(t, {"invalid", "struct", "slice", "array", "map", "ptr", "interface"})
              /\ InMasked(t)) => WritesUnmasked(t)
        /\ (AtOp(t, "fieldSep") /\ InMasked(t)) =>
              calls'[t].out = calls[t].out \o Separator(it, opts, TRUE) \o NameOf(it)

\* C30: masking a string never touches its quotes and masking a number or
\* bool works on its rendered text; type prefixes, field names, braces,
\* separators, nil and cycle placeholders inside a masked subtree are never
\* masked.  With the default options the int 123456 of a MASK field comes out
\* as ####56, and the pointer held by its own MASK field as the placeholder
\* with its type.
MaskedSubtree ==
    /\ [][\A t \in Threads : MaskedSteps(t)]_vars
    /\ [](\A t \in Threads :
            (calls[t].pc = "done" /\ calls[t].mode = "Redact"
               /\ opts.redact = [newDefaultMarshaller.redact EXCEPT !.active = TRUE]) =>
                /\ calls[t].root = "vAnonS" =>
                      calls[t].out =
                        "struct { a int \"redact:\\\"MASK\\\"\"; b string }{####56, \"foo\"}"
                /\ calls[t].root = "pMC" =>
                      calls[t].out = "(*render.MC){Self:<recursive(*render.MC)>, N:42}")

\* a Redact with the default options has just written the string of the MASK
\* field m of M, masked between its quotes
MaskedSubtreeSeen ==
    /\ calls[1].mode = "Redact"
    /\ calls[1].root = "vM"
    /\ opts.redact.maskingLength = DefaultMaskingLength
    /\ calls[1].wrote # <<>>
    /\ calls[1].wrote[1].kind = "string"
    /\ Cat(calls[1].wrote[1].written) = "####omString"

=============================================================================
